---------------------------- MODULE Spec2Model ----------------------------
(***************************************************************************)
(* A model of the DVID voxel block engine (catsop/dvid):                   *)
(*   - the block codec (SerializeData / DeserializeData),                  *)
(*   - the view <-> block transfer (transferBlock),                        *)
(*   - the read-modify-write engine (GetVoxels / PutImage), its version    *)
(*     mutex (VersionMutex), the handler-token pool and the version DAG    *)
(*     service calls (Lock / NewVersion).                                  *)
(*   - the extents of a data instance (AdjustPoints / AdjustIndices), the  *)
(*     allocation of a view (NewExtHandler) and the bulk load (LoadXY,     *)
(*     AsyncWriteData).                                                    *)
(* The specifications share the variables: SpecCodec, SpecXfer,            *)
(* SpecExtents, SpecAlloc, SpecBlocks and SpecShape apply the pure         *)
(* functions to bounded inputs, Spec / SpecSeq run the engine, SpecFault   *)
(* runs it over a backend that fails, SpecBranch on a branched dataset,    *)
(* SpecLoad runs LoadXY and SpecLoadFault runs it with failures, SpecPool  *)
(* LoadXY next to a PutImage, SpecWriter AsyncWriteData on its own and     *)
(* SpecService the structural operations of the service.                   *)
(***************************************************************************)
EXTENDS Integers, Sequences, FiniteSets, TLC

(***************************************************************************)
(* Bounds of the model.                                                    *)
(***************************************************************************)
\* longest payload handed to the codec
MaxPayloadLen == 3
\* largest byte value of a codec payload
MaxByte == 2
\* largest coordinate of a view offset handed to the transfer
MaxXferOffset == 2
\* largest extent of a view handed to the transfer
MaxXferSize == 2
\* largest number of bytes per voxel handed to the transfer
MaxBytesPerVoxel == 2
\* concurrent callers of the engine
NumProcs == 2
\* capacity of the handler-token channel
NumTokens == 2
\* nodes a dataset may hold
MaxNodes == 2
\* calls of the single caller of the sequential specification
MaxOps == 2
MaxExtCoord == 2
MaxFaults == 1
MaxImages == 4
\* calls of AsyncWriteData on one wait group
MaxSubmits == 2

(***************************************************************************)
(* Program constants of the serialization format.                          *)
(***************************************************************************)
\* keyvalue.go:403
Uncompressed == 0
\* keyvalue.go:404, "1 << iota" with iota = 1
Snappy == 2
\* keyvalue.go:422
NoChecksum == 0
\* keyvalue.go:423, "1 << iota" with iota = 1
CRC32 == 2

NoErr == "ok"

(***************************************************************************)
(* Bytes and bit operations on uint8.                                      *)
(***************************************************************************)
RECURSIVE XorN(_, _, _)
XorN(a, b, n) ==
    IF n = 0 THEN 0
    ELSE ((a + b) % 2) + 2 * XorN(a \div 2, b \div 2, n - 1)

\* exclusive or of two 4-bit values, tabulated
XorNibble == [a \in 0..15 |-> [b \in 0..15 |-> XorN(a, b, 4)]]

XorByte(a, b) ==
    16 * XorNibble[a \div 16][b \div 16] + XorNibble[a % 16][b % 16]

Xor4(c, d) == << XorByte(c[1], d[1]), XorByte(c[2], d[2]),
                 XorByte(c[3], d[3]), XorByte(c[4], d[4]) >>

SubSeqFrom(s, i) == SubSeq(s, i, Len(s))

(***************************************************************************)
(* hash/crc32 ChecksumIEEE: the reflected, table-driven CRC-32 with        *)
(* polynomial 0xEDB88320.  A uint32 is held as its four little-endian      *)
(* bytes, which is also how binary.Write(LittleEndian) lays it out.        *)
(***************************************************************************)
CrcPoly == << 32, 131, 184, 237 >>

CrcShift(c) ==
    LET sh == << (c[1] \div 2) + 128 * (c[2] % 2),
                 (c[2] \div 2) + 128 * (c[3] % 2),
                 (c[3] \div 2) + 128 * (c[4] % 2),
                 (c[4] \div 2) >>
    IN  IF c[1] % 2 = 1 THEN Xor4(sh, CrcPoly) ELSE sh

\* crc32.IEEETable: entry i is i shifted through eight rounds
CrcTable ==
    [i \in 0..255 |->
        CrcShift(CrcShift(CrcShift(CrcShift(
        CrcShift(CrcShift(CrcShift(CrcShift(<< i, 0, 0, 0 >>))))))))]

\* crc = table[byte(crc) ^ b] ^ (crc >> 8)
CrcByte(c, b) ==
    LET t == CrcTable[XorByte(c[1], b)]
    IN  << XorByte(c[2], t[1]), XorByte(c[3], t[2]), XorByte(c[4], t[3]), t[4] >>

RECURSIVE CrcUpdate(_, _, _)
CrcUpdate(c, s, i) ==
    IF i > Len(s) THEN c ELSE CrcUpdate(CrcByte(c, s[i]), s, i + 1)

ChecksumIEEE(s) ==
    Xor4(CrcUpdate(<< 255, 255, 255, 255 >>, s, 1), << 255, 255, 255, 255 >>)

(***************************************************************************)
(* snappy.Encode / snappy.Decode (library): the stream is the uncompressed *)
(* length followed by elements.  The encoder is modelled emitting one      *)
(* literal element; the decoder reads literal and copy elements and fails  *)
(* on a stream whose elements do not produce the announced length.         *)
(***************************************************************************)
SnappyEncode(d) ==
    IF d = << >> THEN << 0 >>
    ELSE << Len(d), (Len(d) - 1) * 4 >> \o d

RECURSIVE SnappyCopy(_, _, _)
SnappyCopy(out, offset, n) ==
    IF n = 0 THEN out
    ELSE SnappyCopy(Append(out, out[Len(out) - offset + 1]), offset, n - 1)

RECURSIVE SnappyElems(_, _, _)
SnappyElems(rest, out, n) ==
    IF rest = << >>
    THEN IF Len(out) = n THEN [err |-> NoErr, data |-> out]
                         ELSE [err |-> "snappy: corrupt input", data |-> << >>]
    ELSE LET tag == rest[1]
             kind == tag % 4
             bad == [err |-> "snappy: corrupt input", data |-> << >>]
         IN  CASE kind = 0 ->
                    LET l == (tag \div 4) + 1
                    IN  IF tag \div 4 >= 60 \/ Len(rest) < 1 + l \/ Len(out) + l > n
                        THEN bad
                        ELSE SnappyElems(SubSeqFrom(rest, l + 2),
                                         out \o SubSeq(rest, 2, l + 1), n)
               [] kind = 1 ->
                    IF Len(rest) < 2 THEN bad
                    ELSE LET l == 4 + ((tag \div 4) % 8)
                             offset == (tag \div 32) * 256 + rest[2]
                         IN  IF offset = 0 \/ offset > Len(out) \/ Len(out) + l > n
                             THEN bad
                             ELSE SnappyElems(SubSeqFrom(rest, 3),
                                              SnappyCopy(out, offset, l), n)
               [] kind = 2 ->
                    IF Len(rest) < 3 THEN bad
                    ELSE LET l == 1 + (tag \div 4)
                             offset == rest[2] + 256 * rest[3]
                         IN  IF offset = 0 \/ offset > Len(out) \/ Len(out) + l > n
                             THEN bad
                             ELSE SnappyElems(SubSeqFrom(rest, 4),
                                              SnappyCopy(out, offset, l), n)
               [] OTHER -> bad

SnappyDecode(s) ==
    IF s = << >> \/ s[1] >= 128
    THEN [err |-> "snappy: corrupt input", data |-> << >>]
    ELSE SnappyElems(Tail(s), << >>, s[1])

(***************************************************************************)
(* SerializationFormat: one byte, compression in the high nibble and       *)
(* checksum in the low nibble.                                             *)
(***************************************************************************)
EncodeSerializationFormat(compress, checksum) ==
    ((compress % 16) * 16) + (checksum % 16)

DecodeSerializationFormat(s) ==
    [compress |-> s \div 16, checksum |-> s % 16]

(***************************************************************************)
(* SerializeData: frame byte, optional CRC of the (compressed) payload,    *)
(* then the (compressed) payload.  s is nil (here << >>) on error.         *)
(***************************************************************************)
\* SerializeData writing the checksum after the data instead of before it
SerializeDataCrcLast(data, compress, checksum) ==
    LET format == EncodeSerializationFormat(compress, checksum)
        byteData == IF compress = Snappy THEN SnappyEncode(data) ELSE data
    IN  IF compress \notin {Uncompressed, Snappy}
        THEN [s |-> << >>, err |-> "Illegal compression"]
        ELSE IF checksum \notin {NoChecksum, CRC32}
        THEN [s |-> << >>, err |-> "Illegal checksum"]
        ELSE [s |-> << format >>
                    \o byteData
                    \o (IF checksum = CRC32 THEN ChecksumIEEE(byteData) ELSE << >>),
              err |-> NoErr]

SerializeData(data, compress, checksum) ==
    LET format == EncodeSerializationFormat(compress, checksum)
        byteData == IF compress = Snappy THEN SnappyEncode(data) ELSE data
    IN  IF compress \notin {Uncompressed, Snappy}
        THEN [s |-> << >>, err |-> "Illegal compression"]
        ELSE IF checksum \notin {NoChecksum, CRC32}
        THEN [s |-> << >>, err |-> "Illegal checksum"]
        ELSE [s |-> << format >>
                    \o (IF checksum = CRC32 THEN ChecksumIEEE(byteData) ELSE << >>)
                    \o byteData,
              err |-> NoErr]

(***************************************************************************)
(* DeserializeData: reads the frame byte and the optional stored CRC, then *)
(* compares the CRC of the remaining bytes, then uncompresses on request.  *)
(* err is assigned again by the snappy.Decode call (keyvalue.go:555), so   *)
(* the outcome of the checksum comparison is replaced by the outcome of    *)
(* the decompression.                                                      *)
(***************************************************************************)
DeserializeData(s, uncompress) ==
    IF s = << >>
    THEN [data |-> << >>, compress |-> 0, err |-> "EOF"]
    ELSE
    LET fmt == DecodeSerializationFormat(s[1])
        compress == fmt.compress
        checksum == fmt.checksum
    IN  IF checksum \notin {NoChecksum, CRC32}
        THEN [data |-> << >>, compress |-> compress,
              err |-> "Illegal checksum in deserializing data"]
        ELSE IF checksum = CRC32 /\ Len(s) < 5
        THEN [data |-> << >>, compress |-> compress, err |-> "unexpected EOF"]
        ELSE
        LET storedCrc32 == IF checksum = CRC32 THEN SubSeq(s, 2, 5) ELSE << >>
            body == IF checksum = CRC32 THEN SubSeqFrom(s, 6) ELSE Tail(s)
            crcErr == IF checksum = CRC32 /\ ChecksumIEEE(body) # storedCrc32
                      THEN "Bad checksum" ELSE NoErr
        IN  IF ~uncompress \/ compress = Uncompressed
            THEN [data |-> body, compress |-> compress, err |-> crcErr]
            ELSE IF compress = Snappy
            THEN LET dec == SnappyDecode(body)
                 IN  [data |-> dec.data, compress |-> compress, err |-> dec.err]
            ELSE [data |-> body, compress |-> compress,
                  err |-> "Illegal compression format in deserialization"]

(***************************************************************************)
(* Geometry.  A point is a tuple of int32 coordinates (x, y, z); dimension *)
(* d of the source is position d + 1 here.                                 *)
(***************************************************************************)
Value(pt, d) == pt[d + 1]

\* geometry.go:52-67
XY == [dims |-> 3, shape |-> << 0, 1 >>]
XZ == [dims |-> 3, shape |-> << 0, 2 >>]
YZ == [dims |-> 3, shape |-> << 1, 2 >>]
Arb == [dims |-> 3, shape |-> << >>]
Vol3d == [dims |-> 3, shape |-> << 0, 1, 2 >>]

\* DataShape.Equals
Equals(s, s2) ==
    /\ s.dims = s2.dims
    /\ Len(s.shape) = Len(s2.shape)
    /\ \A i \in 1..Len(s.shape) : s2.shape[i] = s.shape[i]

\* DataShape.ShapeDimensions
ShapeDimensions(s) == Len(s.shape)

\* A view (ExtHandler over a Geometry) is [shape, offset, size, data, bpv]:
\* size is a Point2d for an OrthogSlice and a 3d point for a Subvolume.
StartPoint(v) == v.offset

\* OrthogSlice.endPoint (NewOrthogSlice) and Subvolume.EndPoint
EndPoint(v) ==
    IF Len(v.size) = 2
    THEN [d \in 1..3 |->
            IF d = v.shape.shape[1] + 1 THEN v.offset[d] + v.size[1] - 1
            ELSE IF d = v.shape.shape[2] + 1 THEN v.offset[d] + v.size[2] - 1
            ELSE v.offset[d]]
    ELSE [d \in 1..3 |-> v.offset[d] + v.size[d] - 1]

\* OrthogSlice.NumVoxels and Subvolume.NumVoxels
NumVoxels(v) ==
    IF Len(v.size) = 2 THEN v.size[1] * v.size[2]
    ELSE v.size[1] * v.size[2] * v.size[3]

\* NewExtHandler: stride := geom.Size().Value(0) * bytesPerVoxel
Stride(v) == v.size[1] * v.bpv

Max2(a, b) == IF a >= b THEN a ELSE b
Min2(a, b) == IF a <= b THEN a ELSE b

\* Point.Max / Point.Min, component-wise
PointMax(p, q) == [d \in 1..3 |-> Max2(p[d], q[d])]
PointMin(p, q) == [d \in 1..3 |-> Min2(p[d], q[d])]
PointSub(p, q) == [d \in 1..3 |-> p[d] - q[d]]

\* Chunkable.Chunk: the block coordinate holding a voxel (coordinates >= 0)
Chunk(pt, blockSize) == [d \in 1..3 |-> pt[d] \div blockSize[d]]

\* PointIndexer.FirstPoint / LastPoint: the voxel bounds of a block
FirstPoint(idx, blockSize) == [d \in 1..3 |-> idx[d] * blockSize[d]]
LastPoint(idx, blockSize) == [d \in 1..3 |-> (idx[d] + 1) * blockSize[d] - 1]

Prod(blockSize) == blockSize[1] * blockSize[2] * blockSize[3]

\* ComputeTransform without the clipping of the end of the view to the block
ComputeTransformToViewEnd(v, idx, blockSize) ==
    LET minBlockVoxel == FirstPoint(idx, blockSize)
        begVolCoord == PointMax(StartPoint(v), minBlockVoxel)
    IN  [blockBeg |-> PointSub(begVolCoord, minBlockVoxel),
         dataBeg |-> PointSub(begVolCoord, StartPoint(v)),
         dataEnd |-> PointSub(EndPoint(v), StartPoint(v))]

(***************************************************************************)
(* ComputeTransform: the bounds of the view/block intersection, relative   *)
(* to the view (dataBeg, dataEnd) and to the block (blockBeg).             *)
(***************************************************************************)
ComputeTransform(v, idx, blockSize) ==
    LET minBlockVoxel == FirstPoint(idx, blockSize)
        maxBlockVoxel == LastPoint(idx, blockSize)
        begVolCoord == PointMax(StartPoint(v), minBlockVoxel)
        endVolCoord == PointMin(EndPoint(v), maxBlockVoxel)
    IN  [blockBeg |-> PointSub(begVolCoord, minBlockVoxel),
         dataBeg |-> PointSub(begVolCoord, StartPoint(v)),
         dataEnd |-> PointSub(endVolCoord, StartPoint(v))]

(***************************************************************************)
(* copy(dst[di:di+n], src[si:si+n]) on 0-based offsets.  A slice           *)
(* expression out of range panics.                                         *)
(***************************************************************************)
InBounds(s, i, n) == i >= 0 /\ n >= 0 /\ i + n <= Len(s)

CopyRun(dst, di, src, si, n) ==
    [i \in 1..Len(dst) |->
        IF i > di /\ i <= di + n THEN src[si + (i - di)] ELSE dst[i]]

GetOp == "GetOp"
PutOp == "PutOp"

\* One row loop of transferBlock over st = [d (view data), b (block), panic]:
\* count rows of n bytes, the block offset advancing by bStep and the data
\* offset by dStep.  toBlock tells the direction of the copy calls.
RECURSIVE Rows(_, _, _, _, _, _, _, _)
Rows(st, toBlock, blockI, dataI, n, bStep, dStep, count) ==
    IF count <= 0 \/ st.panic THEN st
    ELSE LET ok == InBounds(st.b, blockI, n) /\ InBounds(st.d, dataI, n)
             st1 == IF ~ok THEN [st EXCEPT !.panic = TRUE]
                    ELSE IF toBlock
                    THEN [st EXCEPT !.b = CopyRun(st.b, blockI, st.d, dataI, n)]
                    ELSE [st EXCEPT !.d = CopyRun(st.d, dataI, st.b, blockI, n)]
         IN  Rows(st1, toBlock, blockI + bStep, dataI + dStep, n, bStep, dStep,
                  count - 1)

\* The YZ case: for each z, per-voxel copies down a block column.
RECURSIVE PlanesYZ(_, _, _, _, _, _, _)
PlanesYZ(st, toBlock, ob, y, bz, bX, dX) ==
    IF y > Value(ob.dataEnd, 2) \/ st.panic THEN st
    ELSE LET bpv == ob.bpv
             bY == ob.bY
             blockI == bz * bY + Value(ob.blockBeg, 1) * bX
                       + Value(ob.blockBeg, 0) * bpv
             dataI == y * dX + Value(ob.dataBeg, 1) * bpv
             st1 == Rows(st, toBlock, blockI, dataI, bpv, bX, bpv,
                         Value(ob.dataEnd, 1) - Value(ob.dataBeg, 1) + 1)
         IN  PlanesYZ(st1, toBlock, ob, y + 1, bz + 1, bX, dX)

\* The Vol3d case: for each z, one row copy per y.
RECURSIVE PlanesVol(_, _, _, _, _, _, _, _)
PlanesVol(st, toBlock, ob, dataZ, blockZ, bX, dX, dY) ==
    IF dataZ > Value(ob.dataEnd, 2) \/ st.panic THEN st
    ELSE LET bpv == ob.bpv
             bY == ob.bY
             blockI == blockZ * bY + Value(ob.blockBeg, 1) * bX
                       + Value(ob.blockBeg, 0) * bpv
             dataI == dataZ * dY + Value(ob.dataBeg, 1) * dX
                      + Value(ob.dataBeg, 0) * bpv
             bytes == (Value(ob.dataEnd, 0) - Value(ob.dataBeg, 0) + 1) * bpv
             st1 == Rows(st, toBlock, blockI, dataI, bytes, bX, dX,
                         Value(ob.dataEnd, 1) - Value(ob.dataBeg, 1) + 1)
         IN  PlanesVol(st1, toBlock, ob, dataZ + 1, blockZ + 1, bX, dX, dY)

(***************************************************************************)
(* transferBlock(op, v, block, blockSize): returns [err, d, b, panic], the *)
(* view data and the block buffer after the call.  In the XY, XZ and YZ    *)
(* cases GetOp copies block -> view and PutOp view -> block; in the Vol3d  *)
(* case the source has the copy arguments the other way round              *)
(* (voxels.go:989, 1000): GetOp copies view -> block, PutOp block -> view. *)
(***************************************************************************)
\* the shape switch of transferBlock (voxels.go:888-1010)
transferShapes(op, v, blockV, idx, blockSize) ==
    LET st0 == [d |-> v.data, b |-> blockV, panic |-> FALSE]
        fail(msg) == [err |-> msg, d |-> v.data, b |-> blockV, panic |-> FALSE]
        done(st) == [err |-> NoErr, d |-> st.d, b |-> st.b, panic |-> st.panic]
        t == ComputeTransform(v, idx, blockSize)
        bpv == v.bpv
        bX == Value(blockSize, 0) * bpv
        bY == Value(blockSize, 1) * bX
        dX == Stride(v)
        ob == [blockBeg |-> t.blockBeg, dataBeg |-> t.dataBeg,
               dataEnd |-> t.dataEnd, bpv |-> bpv, bY |-> bY]
        blockI0 == Value(t.blockBeg, 2) * bY + Value(t.blockBeg, 1) * bX
                   + Value(t.blockBeg, 0) * bpv
        bytes == (Value(t.dataEnd, 0) - Value(t.dataBeg, 0) + 1) * bpv
    IN
    CASE Equals(v.shape, XY) ->
           done(Rows(st0, op = PutOp, blockI0,
                     Value(t.dataBeg, 1) * dX + Value(t.dataBeg, 0) * bpv,
                     bytes, bX, dX,
                     Value(t.dataEnd, 1) - Value(t.dataBeg, 1) + 1))
      [] Equals(v.shape, XZ) ->
           done(Rows(st0, op = PutOp, blockI0,
                     Value(t.dataBeg, 2) * dX + Value(t.dataBeg, 0) * bpv,
                     bytes, bY, dX,
                     Value(t.dataEnd, 2) - Value(t.dataBeg, 2) + 1))
      [] Equals(v.shape, YZ) ->
           done(PlanesYZ(st0, op = PutOp, ob, Value(t.dataBeg, 2),
                         Value(t.blockBeg, 2), bX, dX))
      [] ~Equals(v.shape, XY) /\ ~Equals(v.shape, XZ) /\ ~Equals(v.shape, YZ)
         /\ ShapeDimensions(v.shape) = 2 ->
           fail("DVID currently does not support 2d in n-d space.")
      [] ShapeDimensions(v.shape) # 2 /\ Equals(v.shape, Vol3d) ->
           LET dXv == Value(v.size, 0) * bpv
               dYv == Value(v.size, 1) * dXv
           IN  done(PlanesVol(st0, op = GetOp, ob, Value(t.dataBeg, 2),
                              Value(t.blockBeg, 2), bX, dXv, dYv))
      [] OTHER -> fail("Cannot ReadFromBlock() unsupported voxels data shape")

\* transferBlock without the test of the number of block dimensions
transferBlockAnyDims(op, v, blockV, idx, blockSize) ==
    transferShapes(op, v, blockV, idx, blockSize)

transferBlock(op, v, blockV, idx, blockSize) ==
    IF Len(blockSize) > 3
    THEN [err |-> "DVID voxel blocks currently only supports up to 3d",
          d |-> v.data, b |-> blockV, panic |-> FALSE]
    ELSE transferShapes(op, v, blockV, idx, blockSize)

ReadFromBlock(v, blockV, idx, blockSize) ==
    transferBlock(GetOp, v, blockV, idx, blockSize)

WriteToBlock(v, blockV, idx, blockSize) ==
    transferBlock(PutOp, v, blockV, idx, blockSize)

(***************************************************************************)
(* State.                                                                  *)
(***************************************************************************)
VARIABLES
    cstage,     \* codec run: "off", "in", "ser", "des"
    cin,        \* codec input [p, c, k, un]
    cser,       \* the serialized record [s, err], possibly altered on disk
    calt,       \* 0, or the position of the record byte altered on disk
    cout,       \* result of DeserializeData [data, compress, err]
    xstage,     \* transfer run: "off", "in", "done"
    xin,        \* transfer input [v, blockV, idx, bs]
    xout,       \* transfer result [op, r]
    dag,            \* Dataset version DAG: UUID -> [exists, locked, vid, parent]
    saved,          \* the dataset as last persisted by Dataset.Put
    extents,        \* Extents of the data instance
    store,          \* key-value store: <<vid, block index>> -> serialized block
    versionMutexes, \* map nodeID -> mutex (0: no entry)
    mutexes,        \* allocated sync.Mutex values: holder process, 0 if free
    tokens,         \* tokens in the server.HandlerToken channel
    handlers,       \* running processChunk goroutines
    procs,          \* the callers: per process its call and position in it
    budget,         \* calls each process may still start
    menu,           \* the view geometries callers request
    lastPut,        \* the last PutImage that returned nil: [uuid, view]
    svc,            \* the last Service call: what it was given and did
    fatal,          \* log.Fatal or a panic ended the program
    faults,         \* failures and record corruptions still to happen
    load,           \* the running LoadXY call: its locals and goroutines
    fstage,     \* function run: "off", "in", "done"
    fin,        \* function arguments
    fout        \* function result

codecVars == << cstage, cin, cser, calt, cout >>
xferVars == << xstage, xin, xout >>
pureVars == << fstage, fin, fout >>
engineVars == << dag, saved, extents, store, versionMutexes, mutexes, tokens,
                 handlers, procs, budget, menu, lastPut, svc, fatal, faults,
                 load >>
\* what the PutImage, GetVoxels and Service steps never touch
auxVars == << fstage, fin, fout, faults, load >>
vars == << cstage, cin, cser, calt, cout, xstage, xin, xout,
           dag, saved, extents, store, versionMutexes, mutexes, tokens,
           handlers, procs, budget, menu, lastPut, svc, fatal, faults, load,
           fstage, fin, fout >>

(***************************************************************************)
(* Views.                                                                  *)
(***************************************************************************)
\* NewOrthogSlice (geometry.go:345-374) and NewSubvolume (geometry.go:277)
NewOrthogSlice(s, offset, size) == [shape |-> s, offset |-> offset, size |-> size]
NewSubvolume(offset, size) == [shape |-> Vol3d, offset |-> offset, size |-> size]

\* NewVoxels / NewExtHandler: a geometry with its value layout and buffer
NewVoxels(geom, bpv, data) ==
    [shape |-> geom.shape, offset |-> geom.offset, size |-> geom.size,
     data |-> data, bpv |-> bpv]

NoView == [shape |-> Arb, offset |-> << 0, 0, 0 >>, size |-> << 0, 0 >>,
           data |-> << >>, bpv |-> 1]

\* the block coordinates between Chunk(StartPoint) and Chunk(EndPoint)
BlockRange(v, blockSize) ==
    LET begBlock == Chunk(StartPoint(v), blockSize)
        endBlock == Chunk(EndPoint(v), blockSize)
    IN  {<< x, y, z >> : x \in begBlock[1]..endBlock[1],
                         y \in begBlock[2]..endBlock[2],
                         z \in begBlock[3]..endBlock[3]}

EngineOff ==
    /\ dag = << >>
    /\ saved = << >>
    /\ extents = << >>
    /\ store = << >>
    /\ versionMutexes = << >>
    /\ mutexes = << >>
    /\ tokens = 0
    /\ handlers = {}
    /\ procs = << >>
    /\ budget = << >>
    /\ menu = {}
    /\ lastPut = << >>
    /\ svc = << >>
    /\ fatal = FALSE
    /\ faults = 0
    /\ load = << >>

(***************************************************************************)
(* SpecCodec: SerializeData, a one-byte alteration of the stored record,   *)
(* DeserializeData.                                                        *)
(***************************************************************************)
RECURSIVE SeqsUpTo(_, _)
SeqsUpTo(S, n) ==
    IF n = 0 THEN {<< >>}
    ELSE LET shorter == SeqsUpTo(S, n - 1)
         IN  shorter \cup {Append(s, x) : s \in {t \in shorter : Len(t) = n - 1}, x \in S}

Payloads == SeqsUpTo(0..MaxByte, MaxPayloadLen)
\* the defined compressions and checksums, and one undefined code of each
CompressionInputs == {Uncompressed, Snappy, 1}
ChecksumInputs == {NoChecksum, CRC32, 1}

CodecOff ==
    /\ cstage = "off"
    /\ cin = [p |-> << >>, c |-> 0, k |-> 0, un |-> FALSE]
    /\ cser = [s |-> << >>, err |-> NoErr]
    /\ calt = 0
    /\ cout = [data |-> << >>, compress |-> 0, err |-> NoErr]

PureOff ==
    /\ fstage = "off"
    /\ fin = << >>
    /\ fout = << >>

XferOff ==
    /\ xstage = "off"
    /\ xin = [v |-> NoView, blockV |-> << >>, idx |-> << 0, 0, 0 >>,
              bs |-> << 1, 1, 1 >>]
    /\ xout = [op |-> GetOp,
               r |-> [err |-> NoErr, d |-> << >>, b |-> << >>, panic |-> FALSE]]

InitCodec ==
    /\ cstage = "in"
    /\ cin \in [p : Payloads, c : CompressionInputs, k : ChecksumInputs, un : BOOLEAN]
    /\ cser = [s |-> << >>, err |-> NoErr]
    /\ calt = 0
    /\ cout = [data |-> << >>, compress |-> 0, err |-> NoErr]
    /\ XferOff
    /\ PureOff
    /\ EngineOff

CodecSerialize ==
    /\ cstage = "in"
    /\ cser' = SerializeData(cin.p, cin.c, cin.k)
    /\ cstage' = "ser"
    /\ UNCHANGED << cin, calt, cout, xferVars, pureVars, engineVars >>

\* the stored record is altered at one byte position (disk corruption)
CodecAlter ==
    /\ cstage = "ser"
    /\ calt = 0
    /\ cser.err = NoErr
    /\ \E i \in 1..Len(cser.s) :
          /\ cser' = [cser EXCEPT !.s[i] = (cser.s[i] + 1) % 256]
          /\ calt' = i
    /\ UNCHANGED << cstage, cin, cout, xferVars, pureVars, engineVars >>

CodecDeserialize ==
    /\ cstage = "ser"
    /\ cser.err = NoErr
    /\ cout' = DeserializeData(cser.s, cin.un)
    /\ cstage' = "des"
    /\ UNCHANGED << cin, cser, calt, xferVars, pureVars, engineVars >>

NextCodec == CodecSerialize \/ CodecAlter \/ CodecDeserialize

SpecCodec == InitCodec /\ [][NextCodec]_vars

(***************************************************************************)
(* SpecXfer: ReadFromBlock / WriteToBlock of one view against one of the   *)
(* blocks it intersects.                                                   *)
(***************************************************************************)
XferBlockSizes == {<< 2, 2, 2 >>, << 3, 2, 1 >>, << 2, 2, 2, 2 >>}
XferPoints == {<< x, y, z >> : x \in 0..MaxXferOffset, y \in 0..MaxXferOffset,
                               z \in 0..MaxXferOffset}
XferSlices ==
    {NewOrthogSlice(s, o, << w, h >>) :
        s \in {XY, XZ, YZ}, o \in XferPoints,
        w \in 1..MaxXferSize, h \in 1..MaxXferSize}
\* 2d shapes NewOrthogSlice accepts that are none of XY, XZ, YZ
OtherShapes == {[dims |-> 3, shape |-> << 1, 0 >>],
                [dims |-> 3, shape |-> << 2, 1 >>]}
XferOtherSlices ==
    {NewOrthogSlice(s, o, << w, h >>) :
        s \in OtherShapes, o \in {<< 0, 0, 0 >>, << 1, 1, 1 >>},
        w \in 1..MaxXferSize, h \in 1..MaxXferSize}
XferVolumes ==
    {NewSubvolume(o, << w, h, t >>) :
        o \in XferPoints,
        w \in 1..MaxXferSize, h \in 1..MaxXferSize, t \in 1..MaxXferSize}

\* distinct bytes: the view holds 100 + i, the block holds i
XferViews ==
    {NewVoxels(g, bpv, [i \in 1..(bpv * NumVoxels(g)) |-> 100 + i]) :
        g \in XferSlices \cup XferOtherSlices \cup XferVolumes,
        bpv \in 1..MaxBytesPerVoxel}

InitXfer ==
    /\ xstage = "in"
    /\ \E v \in XferViews, bs \in XferBlockSizes :
         \E idx \in BlockRange(v, bs) :
            xin = [v |-> v, blockV |-> [i \in 1..(Prod(bs) * v.bpv) |-> i],
                   idx |-> idx, bs |-> bs]
    /\ xout = [op |-> GetOp,
               r |-> [err |-> NoErr, d |-> << >>, b |-> << >>, panic |-> FALSE]]
    /\ CodecOff
    /\ PureOff
    /\ EngineOff

XferRead ==
    /\ xstage = "in"
    /\ xout' = [op |-> GetOp, r |-> ReadFromBlock(xin.v, xin.blockV, xin.idx, xin.bs)]
    /\ xstage' = "done"
    /\ UNCHANGED << xin, codecVars, pureVars, engineVars >>

XferWrite ==
    /\ xstage = "in"
    /\ xout' = [op |-> PutOp, r |-> WriteToBlock(xin.v, xin.blockV, xin.idx, xin.bs)]
    /\ xstage' = "done"
    /\ UNCHANGED << xin, codecVars, pureVars, engineVars >>

NextXfer == XferRead \/ XferWrite

SpecXfer == InitXfer /\ [][NextXfer]_vars

(***************************************************************************)
(* The datastore service: one dataset with its version DAG.  A UUID names  *)
(* a node; the dataset maps it to a compact version id (VersionMap).       *)
(***************************************************************************)
Procs == 1..NumProcs
\* the UUID given to the n-th node of the dataset
UUIDOf(n) == 100 + n
\* the UUIDs callers present; the last one never names a node
UUIDs == {UUIDOf(n) : n \in 1..(MaxNodes + 1)}
NoNode == [exists |-> FALSE, locked |-> FALSE, vid |-> 0, parent |-> 0]
Nodes(d) == {u \in DOMAIN d : d[u].exists}

\* Datasets.DatasetFromUUID
DatasetFromUUID(d, u) ==
    IF u \in Nodes(d) THEN NoErr ELSE "UnknownUUID"

\* Service.LocalIDFromUUID: the version id of a UUID, 0 with an error
LocalIDFromUUID(d, u) ==
    IF DatasetFromUUID(d, u) # NoErr
    THEN [vid |-> 0, err |-> DatasetFromUUID(d, u)]
    ELSE [vid |-> d[u].vid, err |-> NoErr]

\* Dataset.Lock: open -> locked
DatasetLock(d, u) == [d EXCEPT ![u].locked = TRUE]

\* Service.Lock: [dag, err, put], put telling whether Dataset.Put was called
Lock(d, u) ==
    IF DatasetFromUUID(d, u) # NoErr
    THEN [dag |-> d, err |-> DatasetFromUUID(d, u), put |-> FALSE]
    ELSE [dag |-> DatasetLock(d, u), err |-> NoErr, put |-> TRUE]

\* Datasets.newChild: a new open child of a locked parent
newChild(d, parent) ==
    IF DatasetFromUUID(d, parent) # NoErr
    THEN [dag |-> d, u |-> 0, err |-> DatasetFromUUID(d, parent)]
    ELSE IF ~d[parent].locked
    THEN [dag |-> d, u |-> 0, err |-> "VersionLocked"]
    ELSE LET n == Cardinality(Nodes(d)) + 1
             u == UUIDOf(n)
         IN  [dag |-> [d EXCEPT ![u] = [exists |-> TRUE, locked |-> FALSE,
                                        vid |-> n, parent |-> parent]],
              u |-> u, err |-> NoErr]

\* Service.NewVersion calling Dataset.Put whether or not newChild failed
NewVersionAlwaysPut(d, parent) ==
    LET r == newChild(d, parent)
    IN  [dag |-> r.dag, u |-> r.u, err |-> r.err, put |-> TRUE]

\* Service.NewVersion: [dag, u, err, put]
NewVersion(d, parent) ==
    LET r == newChild(d, parent)
    IN  IF r.err # NoErr
        THEN [dag |-> r.dag, u |-> r.u, err |-> r.err, put |-> FALSE]
        ELSE [dag |-> r.dag, u |-> r.u, err |-> NoErr, put |-> TRUE]

(***************************************************************************)
(* Extents of the data instance.                                           *)
(***************************************************************************)
NilPoint == << >>
NilExtents == [MinPoint |-> NilPoint, MaxPoint |-> NilPoint,
               MinIndex |-> NilPoint, MaxIndex |-> NilPoint]

\* Point.Min / Point.Max: the bound and whether it differs from the receiver
PointMinChanged(p, q) == [pt |-> PointMin(p, q), changed |-> PointMin(p, q) # p]
PointMaxChanged(p, q) == [pt |-> PointMax(p, q), changed |-> PointMax(p, q) # p]

\* AdjustPoints that sets the bounds of nil extents only
AdjustPointsFirstOnly(ext, pointBeg, pointEnd) ==
    IF ext.MinPoint = NilPoint
    THEN [ext |-> [ext EXCEPT !.MinPoint = pointBeg, !.MaxPoint = pointEnd],
          changed |-> TRUE]
    ELSE [ext |-> ext, changed |-> FALSE]

\* Extents.AdjustPoints: changed is assigned by the MinPoint branch and then
\* again by the MaxPoint branch.
AdjustPoints(ext, pointBeg, pointEnd) ==
    LET lo == IF ext.MinPoint = NilPoint THEN [pt |-> pointBeg, changed |-> TRUE]
              ELSE PointMinChanged(ext.MinPoint, pointBeg)
        hi == IF ext.MaxPoint = NilPoint THEN [pt |-> pointEnd, changed |-> TRUE]
              ELSE PointMaxChanged(ext.MaxPoint, pointEnd)
    IN  [ext |-> [ext EXCEPT !.MinPoint = lo.pt, !.MaxPoint = hi.pt],
         changed |-> hi.changed]

\* Extents.AdjustIndices
AdjustIndices(ext, indexBeg, indexEnd) ==
    LET lo == IF ext.MinIndex = NilPoint THEN [pt |-> indexBeg, changed |-> TRUE]
              ELSE PointMinChanged(ext.MinIndex, indexBeg)
        hi == IF ext.MaxIndex = NilPoint THEN [pt |-> indexEnd, changed |-> TRUE]
              ELSE PointMaxChanged(ext.MaxIndex, indexEnd)
    IN  [ext |-> [ext EXCEPT !.MinIndex = lo.pt, !.MaxIndex = hi.pt],
         changed |-> hi.changed]

(***************************************************************************)
(* SpecExtents: one AdjustPoints or AdjustIndices call on an Extents that  *)
(* is nil or holds bounds with min <= max.                                 *)
(***************************************************************************)
ExtPoints == {<< x, y, 0 >> : x \in 0..MaxExtCoord, y \in 0..MaxExtCoord}
PointLeq(a, b) == \A d \in 1..3 : a[d] <= b[d]
ExtentsInputs ==
    {NilExtents} \cup
    {[MinPoint |-> pr[1], MaxPoint |-> pr[2],
      MinIndex |-> pr[1], MaxIndex |-> pr[2]] :
        pr \in {q \in ExtPoints \X ExtPoints : PointLeq(q[1], q[2])}}

InitExtents ==
    /\ fstage = "in"
    /\ \E e \in ExtentsInputs, a \in ExtPoints, b \in ExtPoints :
         /\ PointLeq(a, b)
         /\ fin = [ext |-> e, beg |-> a, end |-> b]
    /\ fout = << >>
    /\ CodecOff
    /\ XferOff
    /\ EngineOff

ExtAdjustPoints ==
    /\ fstage = "in"
    /\ fout' = [fn |-> "AdjustPoints", r |-> AdjustPoints(fin.ext, fin.beg, fin.end)]
    /\ fstage' = "done"
    /\ UNCHANGED << fin, codecVars, xferVars, engineVars >>

ExtAdjustIndices ==
    /\ fstage = "in"
    /\ fout' = [fn |-> "AdjustIndices", r |-> AdjustIndices(fin.ext, fin.beg, fin.end)]
    /\ fstage' = "done"
    /\ UNCHANGED << fin, codecVars, xferVars, engineVars >>

NextExtents == ExtAdjustPoints \/ ExtAdjustIndices

SpecExtents == InitExtents /\ [][NextExtents]_vars

(***************************************************************************)
(* SpecAlloc: NewExtHandler without image data.  Go's int32 and int64 are  *)
(* kept as two's-complement digit sequences in base 256, least significant *)
(* digit first, so that products wrap as they do in the program.           *)
(***************************************************************************)
Pow256 == << 1, 256, 65536, 16777216 >>

\* the k base-256 digits of the int32 value n, sign-extended
ToDigits(n, k) ==
    [i \in 1..k |-> IF i <= 4 THEN (n \div Pow256[i]) % 256
                    ELSE IF n < 0 THEN 255 ELSE 0]

RECURSIVE MulColumn(_, _, _, _)
MulColumn(a, b, i, j) ==
    IF j > i THEN 0 ELSE a[j] * b[i - j + 1] + MulColumn(a, b, i, j + 1)

RECURSIVE MulCarry(_, _, _)
\* the column sum of digit i with the carry of the lower digits
MulCarry(a, b, i) ==
    IF i = 0 THEN 0
    ELSE MulColumn(a, b, i, 1) + (MulCarry(a, b, i - 1) \div 256)

\* the product of two k-digit integers, truncated to k digits
MulDigits(a, b) == [i \in 1..Len(a) |-> MulCarry(a, b, i) % 256]

IsNegative(a) == a[Len(a)] >= 128
IsZero(a) == \A i \in 1..Len(a) : a[i] = 0

\* the value of a 4-digit integer as int32
Int32Value(a) ==
    a[1] + 256 * a[2] + 65536 * a[3]
    + 16777216 * (IF a[4] >= 128 THEN a[4] - 256 ELSE a[4])

\* a > n for an int64 a and 0 <= n < 2^31
GreaterThan(a, n) ==
    /\ ~IsNegative(a)
    /\ \/ \E i \in 5..8 : a[i] # 0
       \/ a[4] >= 128
       \/ Int32Value(SubSeq(a, 1, 4)) > n

\* OrthogSlice.NumVoxels: int64(s.size[0] * s.size[1]), the product is int32
OrthogSliceNumVoxels(size) ==
    ToDigits(Int32Value(MulDigits(ToDigits(size[1], 4), ToDigits(size[2], 4))), 8)

\* Subvolume.NumVoxels: the product of the sizes in int64
SubvolumeNumVoxels(size) ==
    MulDigits(MulDigits(ToDigits(size[1], 8), ToDigits(size[2], 8)),
              ToDigits(size[3], 8))

GeomNumVoxels(size) ==
    IF Len(size) = 2 THEN OrthogSliceNumVoxels(size)
    ELSE SubvolumeNumVoxels(size)

MaxVoxelsRequest == 1000000000

\* NewExtHandler(geom, nil): the error, and the bytes of the buffer it made
NewExtHandler(size, bytesPerVoxel) ==
    LET numVoxels == GeomNumVoxels(size)
    IN  IF IsNegative(numVoxels) \/ IsZero(numVoxels)
        THEN [err |-> "Illegal geometry requested", alloc |-> 0]
        ELSE IF GreaterThan(numVoxels, MaxVoxelsRequest)
        THEN [err |-> "Requested # voxels exceeds this DVID server's set limit",
              alloc |-> 0]
        ELSE [err |-> NoErr,
              alloc |-> bytesPerVoxel * Int32Value(SubSeq(numVoxels, 1, 4))]

\* sizes around the limit and around the widths of int32 and int64
SizeInputs == {0, 1, 2, 1000, 31623, 46341, 65536, 65537, 2097152, 2147483647}

InitAlloc ==
    /\ fstage = "in"
    /\ \/ \E w \in SizeInputs, h \in SizeInputs : fin = << w, h >>
       \/ \E w \in SizeInputs, h \in SizeInputs, t \in SizeInputs :
             fin = << w, h, t >>
    /\ fout = << >>
    /\ CodecOff
    /\ XferOff
    /\ EngineOff

AllocNewExtHandler ==
    /\ fstage = "in"
    /\ fout' = NewExtHandler(fin, 1)
    /\ fstage' = "done"
    /\ UNCHANGED << fin, codecVars, xferVars, engineVars >>

NextAlloc == AllocNewExtHandler

SpecAlloc == InitAlloc /\ [][NextAlloc]_vars

(***************************************************************************)
(* The key-value store and the index spans of a view.                      *)
(***************************************************************************)
\* the dataset and data ids of the data instance, i.DataID()
DataID == "dataset1/data1"

\* a key whose version is always that of the root node
DataKeyRootVersion(versionID, index) ==
    [data |-> DataID, version |-> 1, index |-> index]
\* datastore.DataKey{dataID.DsetID, dataID.ID, versionID, index}
DataKey(versionID, index) ==
    [data |-> DataID, version |-> versionID, index |-> index]
NilValue == << >>

\* storage engine Put
Put(st, k, v) == [kk \in DOMAIN st \cup {k} |-> IF kk = k THEN v ELSE st[kk]]

\* storage engine GetRange over one span: the stored pairs in key order
RECURSIVE RangeFrom(_, _, _, _, _)
RangeFrom(st, versionID, pt, x, endX) ==
    IF x > endX THEN << >>
    ELSE LET k == DataKey(versionID, << x, pt[2], pt[3] >>)
         IN  (IF k \in DOMAIN st THEN << [k |-> k, v |-> st[k]] >> ELSE << >>)
             \o RangeFrom(st, versionID, pt, x + 1, endX)

GetRange(st, versionID, ptBeg, ptEnd) ==
    RangeFrom(st, versionID, ptBeg, ptBeg[1], ptEnd[1])

\* Voxels.IndexIterator with IndexZYXIterator: z outermost, then y, one
\* span of x per row
IndexIterator(v, chunkSize) ==
    LET begBlock == Chunk(StartPoint(v), chunkSize)
        endBlock == Chunk(EndPoint(v), chunkSize)
        ny == endBlock[2] - begBlock[2] + 1
        nz == endBlock[3] - begBlock[3] + 1
    IN  [n \in 1..(ny * nz) |->
            LET y == begBlock[2] + ((n - 1) % ny)
                z == begBlock[3] + ((n - 1) \div ny)
            IN  [beg |-> << begBlock[1], y, z >>, end |-> << endBlock[1], y, z >>]]

(***************************************************************************)
(* The data instance and the chunk handler.                                *)
(***************************************************************************)
BlockSize == << 2, 2, 2 >>
BytesPerVoxel == 1
Zeros(n) == [i \in 1..n |-> 0]

\* a stored record that does not decode: an unknown frame byte, a stored
\* checksum that is not the checksum of the bytes after it, or bytes that
\* do not decompress
RecordBroken(s) ==
    \/ s = << >>
    \/ LET fmt == DecodeSerializationFormat(s[1])
           body == IF fmt.checksum = CRC32 THEN SubSeqFrom(s, 6) ELSE Tail(s)
       IN  \/ fmt.checksum \notin {NoChecksum, CRC32}
           \/ fmt.compress \notin {Uncompressed, Snappy}
           \/ fmt.checksum = CRC32 /\ Len(s) < 5
           \/ fmt.checksum = CRC32 /\ Len(s) >= 5
              /\ ChecksumIEEE(body) # SubSeq(s, 2, 5)
           \/ fmt.compress = Snappy /\ SnappyDecode(body).err # NoErr

\* the block buffer taken to be zero whatever the chunk holds
BlockBufferZero(V, n) == [data |-> Zeros(n), err |-> NoErr]

\* processChunk, block buffer: zero for a nil chunk value, else the
\* deserialized value (an error is only logged)
BlockBuffer(V, n) ==
    IF V = NilValue THEN [data |-> Zeros(n), err |-> NoErr]
    ELSE LET r == DeserializeData(V, TRUE)
         IN  [data |-> r.data, err |-> r.err]

NoPut == [uuid |-> 0, view |-> NoView]
NoCall == [call |-> "none", uuid |-> 0, parentLocked |-> FALSE, u |-> 0,
           err |-> NoErr, put |-> FALSE, created |-> {}, child |-> NoNode,
           savedSame |-> TRUE]

IdleProc ==
    [pc |-> "idle", op |-> "none", uuid |-> 0, view |-> NoView, orig |-> NoView,
     vid |-> 0, lerr |-> NoErr, vmutex |-> 0, spans |-> << >>, x |-> 0,
     keyvalues |-> << >>, oldI |-> 0, wg |-> 0, extentChanged |-> FALSE,
     err |-> NoErr, before |-> << >>, extBefore |-> NilExtents,
     wasLocked |-> FALSE, sawBad |-> FALSE, putFailed |-> FALSE,
     late |-> FALSE, saves |-> 0, saveFailed |-> FALSE,
     iterFailed |-> FALSE, reads |-> 0]

\* the bytes of the image a caller puts: distinct per call, never zero
TagOf(p) == 4 * p - budget[p]
ImageData(p, n) == [i \in 1..n |-> 16 * TagOf(p) + i]

\* the geometries requested by a single caller / by concurrent callers
SeqGeometries ==
    {NewOrthogSlice(s, o, << 2, 2 >>) :
        s \in {XY, XZ, YZ}, o \in {<< 0, 0, 0 >>, << 1, 1, 1 >>}}
    \cup {NewSubvolume(o, << 2, 2, 2 >>) : o \in {<< 0, 0, 0 >>, << 1, 1, 1 >>}}
ConcGeometries ==
    {NewOrthogSlice(XY, o, << 2, 2 >>) : o \in {<< 0, 0, 0 >>, << 1, 1, 0 >>}}

\* no LoadXY call is running
NoLoad == [pc |-> "off", slices |-> {}, writer |-> << >>]

InitEngine(b, m) ==
    /\ dag = [u \in UUIDs |->
                IF u = UUIDOf(1)
                THEN [exists |-> TRUE, locked |-> FALSE, vid |-> 1, parent |-> 0]
                ELSE NoNode]
    /\ saved = [dag |-> dag, extents |-> NilExtents]
    /\ extents = NilExtents
    /\ store = << >>
    /\ versionMutexes = [id \in 0..MaxNodes |-> 0]
    /\ mutexes = << >>
    /\ tokens = NumTokens
    /\ handlers = {}
    /\ procs = [p \in Procs |-> IdleProc]
    /\ budget = b
    /\ menu = m
    /\ lastPut = NoPut
    /\ svc = NoCall
    /\ fatal = FALSE
    /\ load = NoLoad

(***************************************************************************)
(* PutImage, step by step.  The call resolves the version id and returns   *)
(* at once when the UUID is unknown.                                       *)
(***************************************************************************)
PutImage(p) ==
    /\ ~fatal
    /\ procs[p].pc \in {"idle", "done"}
    /\ \A h \in handlers : h.proc # p
    /\ budget[p] > 0
    /\ \E u \in UUIDs, g \in menu :
          LET v == NewVoxels(g, BytesPerVoxel,
                             ImageData(p, BytesPerVoxel * NumVoxels(g)))
              id == LocalIDFromUUID(dag, u)
          IN  procs' = [procs EXCEPT ![p] =
                  [IdleProc EXCEPT
                      !.pc = IF id.err # NoErr THEN "done" ELSE "vmLookup",
                      !.op = "PutImage", !.uuid = u, !.view = v, !.orig = v,
                      !.vid = id.vid, !.lerr = id.err, !.err = id.err,
                      !.before = store, !.extBefore = extents,
                      !.wasLocked = dag[u].locked]]
    /\ budget' = [budget EXCEPT ![p] = @ - 1]
    /\ UNCHANGED << dag, saved, extents, store, versionMutexes, mutexes, tokens,
                    handlers, menu, lastPut, svc, fatal, codecVars, xferVars, auxVars >>

\* VersionMutex, the map read.  The mutex locked around the map access is a
\* local of the call, so the read and the insert of two callers interleave.
VersionMutexLookup(p) ==
    /\ ~fatal
    /\ procs[p].pc = "vmLookup"
    /\ LET vmutex == versionMutexes[procs[p].vid]
       IN  procs' = [procs EXCEPT ![p].vmutex = vmutex,
                                  ![p].pc = IF vmutex = 0 THEN "vmInsert"
                                            ELSE "lock"]
    /\ UNCHANGED << dag, saved, extents, store, versionMutexes, mutexes, tokens,
                    handlers, budget, menu, lastPut, svc, fatal, codecVars,
                    xferVars, auxVars >>

\* VersionMutex, not found: a new mutex is made and entered in the map.
\* While another caller is inside its own unguarded map access the two
\* accesses race: the insert goes through, or the runtime ends the program.
VersionMutexInsert(p) ==
    /\ ~fatal
    /\ procs[p].pc = "vmInsert"
    /\ LET racing == \E q \in Procs \ {p} : procs[q].pc \in {"vmLookup", "vmInsert"}
       IN  \E crash \in (IF racing THEN BOOLEAN ELSE {FALSE}) :
              IF crash
              THEN /\ fatal' = TRUE
                   /\ UNCHANGED << mutexes, versionMutexes, procs >>
              ELSE /\ mutexes' = Append(mutexes, 0)
                   /\ versionMutexes' =
                         [versionMutexes EXCEPT ![procs[p].vid] = Len(mutexes) + 1]
                   /\ procs' = [procs EXCEPT ![p].vmutex = Len(mutexes) + 1,
                                             ![p].pc = "lock"]
                   /\ fatal' = FALSE
    /\ UNCHANGED << dag, saved, extents, store, tokens, handlers, budget, menu,
                    lastPut, svc, codecVars, xferVars, auxVars >>

\* versionMutex.Lock(), then AdjustPoints and the index iterator.  When
\* e.IndexIterator returns an error the loop condition `err == nil &&
\* it.Valid()` is false at once: the loop runs over no span.
PutImageLock(p) ==
    /\ ~fatal
    /\ procs[p].pc = "lock"
    /\ procs[p].op = "PutImage"
    /\ mutexes[procs[p].vmutex] = 0
    /\ mutexes' = [mutexes EXCEPT ![procs[p].vmutex] = p]
    /\ \E iterFails \in (IF faults > 0 THEN BOOLEAN ELSE {FALSE}) :
         LET v == procs[p].view
             adj == AdjustPoints(extents, StartPoint(v), EndPoint(v))
         IN  /\ extents' = adj.ext
             /\ procs' = [procs EXCEPT
                   ![p].extentChanged = adj.changed,
                   ![p].spans = IF iterFails THEN << >>
                                ELSE IndexIterator(v, BlockSize),
                   ![p].iterFailed = iterFails,
                   ![p].pc = "span"]
             /\ faults' = IF iterFails THEN faults - 1 ELSE faults
    /\ UNCHANGED << dag, saved, store, versionMutexes, tokens, handlers, budget,
                    menu, lastPut, svc, fatal, load, codecVars, xferVars,
                    pureVars >>

\* the span loop adding one to the wait group whatever the span holds
PutImageSpanAddOne(p) ==
    /\ ~fatal
    /\ procs[p].pc = "span"
    /\ IF procs[p].spans = << >>
       THEN /\ procs' = [procs EXCEPT ![p].pc = "wait"]
            /\ UNCHANGED extents
       ELSE LET sp == Head(procs[p].spans)
                adj == AdjustIndices(extents, sp.beg, sp.end)
            IN  /\ extents' = adj.ext
                /\ procs' = [procs EXCEPT
                      ![p].extentChanged = @ \/ adj.changed,
                      ![p].keyvalues = GetRange(store, procs[p].vid, sp.beg, sp.end),
                      ![p].oldI = 1,
                      ![p].wg = @ + 1,
                      ![p].x = sp.beg[1],
                      ![p].pc = "dispatch"]
    /\ UNCHANGED << dag, saved, store, versionMutexes, mutexes, tokens, handlers,
                    budget, menu, lastPut, svc, fatal, codecVars, xferVars, auxVars >>

\* one turn of the span loop up to wg.Add: AdjustIndices and GetRange
PutImageSpan(p) ==
    /\ ~fatal
    /\ procs[p].pc = "span"
    /\ IF procs[p].spans = << >>
       THEN /\ procs' = [procs EXCEPT ![p].pc = "wait"]
            /\ UNCHANGED extents
       ELSE LET sp == Head(procs[p].spans)
                adj == AdjustIndices(extents, sp.beg, sp.end)
            IN  /\ extents' = adj.ext
                /\ procs' = [procs EXCEPT
                      ![p].extentChanged = @ \/ adj.changed,
                      ![p].keyvalues = GetRange(store, procs[p].vid, sp.beg, sp.end),
                      ![p].oldI = 1,
                      ![p].wg = @ + (sp.end[1] - sp.beg[1] + 1),
                      ![p].x = sp.beg[1],
                      ![p].pc = "dispatch"]
    /\ UNCHANGED << dag, saved, store, versionMutexes, mutexes, tokens, handlers,
                    budget, menu, lastPut, svc, fatal, codecVars, xferVars, auxVars >>

\* db.GetRange fails and the call returns with the version mutex held
PutImageRangeFailsLocked(p) ==
    /\ ~fatal
    /\ procs[p].pc = "span"
    /\ procs[p].spans # << >>
    /\ faults > 0
    /\ LET sp == Head(procs[p].spans)
           adj == AdjustIndices(extents, sp.beg, sp.end)
           changed == procs[p].extentChanged \/ adj.changed
       IN  /\ extents' = adj.ext
           /\ saved' = IF changed THEN [dag |-> dag, extents |-> adj.ext] ELSE saved
           /\ procs' = [procs EXCEPT
                 ![p].extentChanged = changed,
                 ![p].saves = IF changed THEN @ + 1 ELSE @,
                 ![p].pc = "done",
                 ![p].err = "Error in reading data during PUT"]
    /\ UNCHANGED mutexes
    /\ faults' = faults - 1
    /\ UNCHANGED << dag, store, versionMutexes, tokens, handlers, budget, menu,
                    lastPut, svc, fatal, load, codecVars, xferVars, pureVars >>

\* db.GetRange fails: return the error without wg.Wait(); the deferred
\* SaveDataset and Unlock run
PutImageRangeFails(p) ==
    /\ ~fatal
    /\ procs[p].pc = "span"
    /\ procs[p].spans # << >>
    /\ faults > 0
    /\ LET sp == Head(procs[p].spans)
           adj == AdjustIndices(extents, sp.beg, sp.end)
           changed == procs[p].extentChanged \/ adj.changed
       IN  /\ extents' = adj.ext
           /\ saved' = IF changed THEN [dag |-> dag, extents |-> adj.ext] ELSE saved
           /\ procs' = [procs EXCEPT
                 ![p].extentChanged = changed,
                 ![p].saves = IF changed THEN @ + 1 ELSE @,
                 ![p].pc = "done",
                 ![p].err = "Error in reading data during PUT"]
    /\ mutexes' = [mutexes EXCEPT ![procs[p].vmutex] = 0]
    /\ faults' = faults - 1
    /\ UNCHANGED << dag, store, versionMutexes, tokens, handlers, budget, menu,
                    lastPut, svc, fatal, load, codecVars, xferVars, pureVars >>

\* ProcessChunk starting the handler without taking a handler token
PutImageDispatchNoToken(p) ==
    /\ ~fatal
    /\ procs[p].pc = "dispatch"
    /\ LET pr == procs[p]
           sp == Head(pr.spans)
           key == DataKey(pr.vid, << pr.x, sp.beg[2], sp.beg[3] >>)
           match == /\ pr.oldI <= Len(pr.keyvalues)
                    /\ pr.keyvalues[pr.oldI].k.index[1] = pr.x
           kv == IF match THEN pr.keyvalues[pr.oldI]
                 ELSE [k |-> key, v |-> NilValue]
           last == pr.x = sp.end[1]
       IN  /\ handlers' = handlers \cup
                  {[proc |-> p, op |-> PutOp, k |-> kv.k, v |-> kv.v]}
           /\ procs' = [procs EXCEPT
                 ![p].oldI = IF match THEN @ + 1 ELSE @,
                 ![p].x = @ + 1,
                 ![p].spans = IF last THEN Tail(@) ELSE @,
                 ![p].pc = IF last THEN "span" ELSE "dispatch"]
    /\ UNCHANGED tokens
    /\ UNCHANGED << dag, saved, extents, store, versionMutexes, mutexes, budget,
                    menu, lastPut, svc, fatal, codecVars, xferVars, auxVars >>

\* one turn of the x loop: the old value of the block, if the range held
\* it, and ProcessChunk, which takes a handler token and starts processChunk
PutImageDispatch(p) ==
    /\ ~fatal
    /\ procs[p].pc = "dispatch"
    /\ tokens > 0
    /\ LET pr == procs[p]
           sp == Head(pr.spans)
           key == DataKey(pr.vid, << pr.x, sp.beg[2], sp.beg[3] >>)
           match == /\ pr.oldI <= Len(pr.keyvalues)
                    /\ pr.keyvalues[pr.oldI].k.index[1] = pr.x
           kv == IF match THEN pr.keyvalues[pr.oldI]
                 ELSE [k |-> key, v |-> NilValue]
           last == pr.x = sp.end[1]
       IN  /\ handlers' = handlers \cup
                  {[proc |-> p, op |-> PutOp, k |-> kv.k, v |-> kv.v]}
           /\ procs' = [procs EXCEPT
                 ![p].oldI = IF match THEN @ + 1 ELSE @,
                 ![p].x = @ + 1,
                 ![p].spans = IF last THEN Tail(@) ELSE @,
                 ![p].pc = IF last THEN "span" ELSE "dispatch"]
    /\ tokens' = tokens - 1
    /\ UNCHANGED << dag, saved, extents, store, versionMutexes, mutexes, budget,
                    menu, lastPut, svc, fatal, codecVars, xferVars, auxVars >>

\* processChunk: the block buffer, the transfer, for a put the serialized
\* block written back, then the token returned and wg.Done
processChunk(h) ==
    /\ ~fatal
    /\ h \in handlers
    /\ \E putFails \in (IF faults > 0 /\ h.op = PutOp THEN BOOLEAN ELSE {FALSE}) :
       LET v == procs[h.proc].view
           buf == BlockBuffer(h.v, Prod(BlockSize) * v.bpv)
           r == IF h.op = GetOp
                THEN ReadFromBlock(v, buf.data, h.k.index, BlockSize)
                ELSE WriteToBlock(v, buf.data, h.k.index, BlockSize)
           bad == h.v # NilValue /\ RecordBroken(h.v)
       IN  IF r.err # NoErr \/ r.panic
           THEN /\ fatal' = TRUE
                /\ procs' = [procs EXCEPT ![h.proc].sawBad = @ \/ bad]
                /\ UNCHANGED << store, tokens, handlers, faults >>
           ELSE /\ procs' = [procs EXCEPT
                      ![h.proc].view.data = r.d,
                      ![h.proc].wg = @ - 1,
                      ![h.proc].sawBad = @ \/ bad,
                      ![h.proc].putFailed = @ \/ putFails,
                      ![h.proc].late = @ \/ (procs[h.proc].pc = "done")]
                /\ store' = IF h.op = PutOp /\ ~putFails
                            THEN Put(store, h.k, SerializeData(r.b, Snappy, CRC32).s)
                            ELSE store
                /\ faults' = IF putFails THEN faults - 1 ELSE faults
                /\ tokens' = tokens + 1
                /\ handlers' = handlers \ {h}
                /\ fatal' = FALSE
    /\ UNCHANGED << dag, saved, extents, versionMutexes, mutexes, budget, menu,
                    lastPut, svc, load, codecVars, xferVars, pureVars >>

\* PutImage returning the error of a failed SaveDataset
PutImageReturnSaveError(p) ==
    /\ ~fatal
    /\ procs[p].pc = "wait"
    /\ procs[p].wg = 0
    /\ \E saveFails \in (IF faults > 0 /\ procs[p].extentChanged
                         THEN BOOLEAN ELSE {FALSE}) :
          /\ saved' = IF procs[p].extentChanged /\ ~saveFails
                      THEN [dag |-> dag, extents |-> extents] ELSE saved
          /\ procs' = [procs EXCEPT
                ![p].pc = "done",
                ![p].err = IF saveFails THEN "SaveDataset" ELSE NoErr,
                ![p].saveFailed = saveFails,
                ![p].saves = IF procs[p].extentChanged THEN @ + 1 ELSE @]
          /\ faults' = IF saveFails THEN faults - 1 ELSE faults
    /\ mutexes' = [mutexes EXCEPT ![procs[p].vmutex] = 0]
    /\ lastPut' = [uuid |-> procs[p].uuid, view |-> procs[p].orig]
    /\ UNCHANGED << dag, extents, store, versionMutexes, tokens, handlers,
                    budget, menu, svc, fatal, load, codecVars, xferVars,
                    pureVars >>

\* wg.Wait() passed: return nil; the deferred SaveDataset, whose error is
\* only logged, then Unlock
PutImageReturn(p) ==
    /\ ~fatal
    /\ procs[p].pc = "wait"
    /\ procs[p].wg = 0
    /\ \E saveFails \in (IF faults > 0 /\ procs[p].extentChanged
                         THEN BOOLEAN ELSE {FALSE}) :
          /\ saved' = IF procs[p].extentChanged /\ ~saveFails
                      THEN [dag |-> dag, extents |-> extents] ELSE saved
          /\ procs' = [procs EXCEPT
                ![p].pc = "done", ![p].err = NoErr,
                ![p].saveFailed = saveFails,
                ![p].saves = IF procs[p].extentChanged THEN @ + 1 ELSE @]
          /\ faults' = IF saveFails THEN faults - 1 ELSE faults
    /\ mutexes' = [mutexes EXCEPT ![procs[p].vmutex] = 0]
    /\ lastPut' = [uuid |-> procs[p].uuid, view |-> procs[p].orig]
    /\ UNCHANGED << dag, extents, store, versionMutexes, tokens, handlers,
                    budget, menu, svc, fatal, load, codecVars, xferVars,
                    pureVars >>

(***************************************************************************)
(* GetVoxels, step by step.  The error of LocalIDFromUUID is looked at     *)
(* only after the span loop.                                               *)
(***************************************************************************)
GetVoxels(p) ==
    /\ ~fatal
    /\ procs[p].pc \in {"idle", "done"}
    /\ \A h \in handlers : h.proc # p
    /\ budget[p] > 0
    /\ \E u \in UUIDs, g \in menu :
       \E iterFails \in (IF faults > 0 THEN BOOLEAN ELSE {FALSE}) :
          LET v == NewVoxels(g, BytesPerVoxel, Zeros(BytesPerVoxel * NumVoxels(g)))
              id == LocalIDFromUUID(dag, u)
          IN  /\ procs' = [procs EXCEPT ![p] =
                  [IdleProc EXCEPT
                      !.pc = "gspan", !.op = "GetVoxels", !.uuid = u,
                      !.view = v, !.orig = v, !.vid = id.vid, !.lerr = id.err,
                      !.spans = IF iterFails THEN << >>
                                ELSE IndexIterator(v, BlockSize),
                      !.iterFailed = iterFails,
                      !.before = store, !.extBefore = extents,
                      !.wasLocked = dag[u].locked]]
              /\ faults' = IF iterFails THEN faults - 1 ELSE faults
    /\ budget' = [budget EXCEPT ![p] = @ - 1]
    /\ UNCHANGED << dag, saved, extents, store, versionMutexes, mutexes, tokens,
                    handlers, menu, lastPut, svc, fatal, load, codecVars,
                    xferVars, pureVars >>

\* one turn of the span loop: ProcessRange reads the stored pairs of the span
GetVoxelsSpan(p) ==
    /\ ~fatal
    /\ procs[p].pc = "gspan"
    /\ IF procs[p].spans = << >>
       THEN procs' = [procs EXCEPT ![p].pc = "gwait"]
       ELSE LET sp == Head(procs[p].spans)
                kvs == GetRange(store, procs[p].vid, sp.beg, sp.end)
            IN  procs' = [procs EXCEPT
                    ![p].keyvalues = kvs,
                    ![p].oldI = 1,
                    ![p].reads = @ + 1,
                    ![p].spans = IF kvs = << >> THEN Tail(@) ELSE @,
                    ![p].pc = IF kvs = << >> THEN "gspan" ELSE "gdispatch"]
    /\ UNCHANGED << dag, saved, extents, store, versionMutexes, mutexes, tokens,
                    handlers, budget, menu, lastPut, svc, fatal, codecVars,
                    xferVars, auxVars >>

\* db.ProcessRange fails: return the error at once, without wg.Wait()
GetVoxelsRangeFails(p) ==
    /\ ~fatal
    /\ procs[p].pc = "gspan"
    /\ procs[p].spans # << >>
    /\ faults > 0
    /\ procs' = [procs EXCEPT ![p].pc = "done", ![p].err = "Unable to GET data"]
    /\ faults' = faults - 1
    /\ UNCHANGED << dag, saved, extents, store, versionMutexes, mutexes, tokens,
                    handlers, budget, menu, lastPut, svc, fatal, load, codecVars,
                    xferVars, pureVars >>

\* ProcessRange hands one stored pair to ProcessChunk
GetVoxelsDispatch(p) ==
    /\ ~fatal
    /\ procs[p].pc = "gdispatch"
    /\ tokens > 0
    /\ LET pr == procs[p]
           kv == pr.keyvalues[pr.oldI]
           last == pr.oldI = Len(pr.keyvalues)
       IN  /\ handlers' = handlers \cup
                  {[proc |-> p, op |-> GetOp, k |-> kv.k, v |-> kv.v]}
           /\ procs' = [procs EXCEPT
                 ![p].wg = @ + 1,
                 ![p].oldI = @ + 1,
                 ![p].spans = IF last THEN Tail(@) ELSE @,
                 ![p].pc = IF last THEN "gspan" ELSE "gdispatch"]
    /\ tokens' = tokens - 1
    /\ UNCHANGED << dag, saved, extents, store, versionMutexes, mutexes, budget,
                    menu, lastPut, svc, fatal, codecVars, xferVars, auxVars >>

\* after the loop: return the LocalIDFromUUID error, else wg.Wait()
GetVoxelsReturn(p) ==
    /\ ~fatal
    /\ procs[p].pc = "gwait"
    /\ procs[p].lerr # NoErr \/ procs[p].wg = 0
    /\ procs' = [procs EXCEPT ![p].pc = "done", ![p].err = procs[p].lerr]
    /\ UNCHANGED << dag, saved, extents, store, versionMutexes, mutexes, tokens,
                    handlers, budget, menu, lastPut, svc, fatal, codecVars,
                    xferVars, auxVars >>

(***************************************************************************)
(* The node requests "lock" and "branch" of the web API.                   *)
(***************************************************************************)
ServiceLock(p) ==
    /\ ~fatal
    /\ procs[p].pc \in {"idle", "done"}
    /\ \A h \in handlers : h.proc # p
    /\ budget[p] > 0
    /\ \E u \in UUIDs :
          LET r == Lock(dag, u)
              s2 == IF r.put THEN [dag |-> r.dag, extents |-> extents] ELSE saved
          IN  /\ dag' = r.dag
              /\ saved' = s2
              /\ procs' = [procs EXCEPT ![p] =
                     [IdleProc EXCEPT !.pc = "done", !.op = "Lock", !.uuid = u,
                                      !.err = r.err]]
              /\ svc' = [call |-> "Lock", uuid |-> u,
                         parentLocked |-> dag[u].locked, u |-> 0,
                         err |-> r.err, put |-> r.put,
                         created |-> Nodes(r.dag) \ Nodes(dag),
                         child |-> NoNode, savedSame |-> s2 = saved]
    /\ budget' = [budget EXCEPT ![p] = @ - 1]
    /\ UNCHANGED << extents, store, versionMutexes, mutexes, tokens, handlers,
                    menu, lastPut, fatal, codecVars, xferVars, auxVars >>

ServiceNewVersion(p) ==
    /\ ~fatal
    /\ procs[p].pc \in {"idle", "done"}
    /\ \A h \in handlers : h.proc # p
    /\ budget[p] > 0
    /\ \E parent \in UUIDs :
          LET r == NewVersion(dag, parent)
              s2 == IF r.put THEN [dag |-> r.dag, extents |-> extents] ELSE saved
          IN  /\ r.err # NoErr \/ Cardinality(Nodes(dag)) < MaxNodes
              /\ dag' = r.dag
              /\ saved' = s2
              /\ procs' = [procs EXCEPT ![p] =
                     [IdleProc EXCEPT !.pc = "done", !.op = "NewVersion",
                                      !.uuid = parent, !.err = r.err]]
              /\ svc' = [call |-> "NewVersion", uuid |-> parent,
                         parentLocked |-> dag[parent].locked, u |-> r.u,
                         err |-> r.err, put |-> r.put,
                         created |-> Nodes(r.dag) \ Nodes(dag),
                         child |-> IF r.u \in DOMAIN r.dag THEN r.dag[r.u] ELSE NoNode,
                         savedSame |-> s2 = saved]
    /\ budget' = [budget EXCEPT ![p] = @ - 1]
    /\ UNCHANGED << extents, store, versionMutexes, mutexes, tokens, handlers,
                    menu, lastPut, fatal, codecVars, xferVars, auxVars >>

(***************************************************************************)
(* Spec: concurrent callers, one PutImage each.                            *)
(* SpecSeq: a single caller making MaxOps calls one after the other.       *)
(***************************************************************************)
(***************************************************************************)
(* LoadXY: the XY images of a file list are written one block layer at a   *)
(* time.  The slices of a layer are transferred into one of two sets of    *)
(* block buffers by goroutines; the finished layer is handed to            *)
(* AsyncWriteData while the next layer fills the other set.                *)
(***************************************************************************)
\* Go's integer division and remainder, which truncate toward zero
GoDiv(a, b) == IF a >= 0 THEN a \div b ELSE -((-a) \div b)
GoMod(a, b) == a - b * GoDiv(a, b)

\* dvid.GetNumBlocks of an XY slice: per dimension of the size, the length
\* from the start of the first block divided by the block length, rounded up
GetNumBlocks(v, blockSize) ==
    LET blocks(d) ==
            LET startMod == GoMod(v.offset[d], blockSize[d])
                length == v.size[d] + startMod
            IN  GoDiv(length, blockSize[d])
                + (IF GoMod(length, blockSize[d]) # 0 THEN 1 ELSE 0)
    IN  blocks(1) * blocks(2)

NoKey == [data |-> DataID, version |-> 0, index |-> << >>]

\* make(Blocks, numBlocks) with zeroed values
NewBlocks(numBlocks, blockBytes) ==
    [i \in 1..numBlocks |-> [K |-> NoKey, V |-> Zeros(blockBytes)]]

\* the block indices of a view in iterator order: span by span, x ascending
RECURSIVE SpanIndices(_, _)
SpanIndices(spans, i) ==
    IF i > Len(spans) THEN << >>
    ELSE [j \in 1..(spans[i].end[1] - spans[i].beg[1] + 1) |->
             << spans[i].beg[1] + j - 1, spans[i].beg[2], spans[i].beg[3] >>]
         \o SpanIndices(spans, i + 1)
BlockIndices(v, blockSize) == SpanIndices(IndexIterator(v, blockSize), 1)

\* copy(dst, src)
CopyInto(dst, src) ==
    [j \in 1..Len(dst) |-> IF j <= Len(src) THEN src[j] ELSE dst[j]]

\* loadOldBlocks: the key of every block of the slice's footprint, and the
\* stored value of the block, if any, copied into its buffer
loadOldBlocks(e, blocks, versionID, st) ==
    LET idxs == BlockIndices(e, BlockSize)
        key(i) == DataKey(versionID, idxs[i])
        old(i) == DeserializeData(st[key(i)], TRUE)
    IN  IF \E i \in 1..Len(idxs) : key(i) \in DOMAIN st /\ old(i).err # NoErr
        THEN [err |-> "Unable to deserialize block", blocks |-> blocks]
        ELSE [err |-> NoErr,
              blocks |-> [i \in 1..Len(blocks) |->
                  IF i > Len(idxs) THEN blocks[i]
                  ELSE [K |-> key(i),
                        V |-> IF key(i) \in DOMAIN st
                              THEN CopyInto(blocks[i].V, old(i).data)
                              ELSE blocks[i].V]]]

\* writeXYImage, the index extents: AdjustIndices span by span
RECURSIVE AdjustSpans(_, _, _)
AdjustSpans(ext, spans, i) ==
    IF i > Len(spans) THEN [ext |-> ext, changed |-> FALSE]
    ELSE LET adj == AdjustIndices(ext, spans[i].beg, spans[i].end)
             rest == AdjustSpans(adj.ext, spans, i + 1)
         IN  [ext |-> rest.ext, changed |-> adj.changed \/ rest.changed]

\* writeXYImage: every block of the slice's footprint gets its key and the
\* slice's voxels; the result of WriteToBlock is not looked at
writeXYImage(ext, e, blocks, versionID) ==
    LET idxs == BlockIndices(e, BlockSize)
        adj == AdjustSpans(ext, IndexIterator(e, BlockSize), 1)
        w(i) == WriteToBlock(e, blocks[i].V, idxs[i], BlockSize)
    IN  [ext |-> adj.ext,
         changed |-> adj.changed,
         panic |-> Len(idxs) > Len(blocks) \/ \E i \in 1..Len(idxs) : w(i).panic,
         blocks |-> [i \in 1..Len(blocks) |->
             IF i > Len(idxs) THEN blocks[i]
             ELSE [K |-> DataKey(versionID, idxs[i]), V |-> w(i).b]]]

\* the goroutine of AsyncWriteData: every block serialized and put
RECURSIVE PutBlocks(_, _, _)
PutBlocks(st, blocks, i) ==
    IF i > Len(blocks) THEN st
    ELSE PutBlocks(Put(st, blocks[i].K,
                       SerializeData(blocks[i].V, Snappy, CRC32).s),
                   blocks, i + 1)

NoWriter == << >>

\* the bytes of the image of file fileNum: distinct per file, never zero
FileData(fileNum, n) == [i \in 1..n |-> 128 + 16 * fileNum + i]

LoadOffsets == {<< 0, 0, 0 >>, << 0, 0, 1 >>}
LoadSizes == {<< 1, 1 >>, << 2, 2 >>}
LoadGeometries == {NewOrthogSlice(XY, << 0, 0, 2 >>, << 2, 2 >>)}

\* LoadXY up to the version id: no file, or an unknown UUID, returns at once
LoadXY(p) ==
    /\ ~fatal
    /\ load.pc = "off"
    /\ procs[p].pc \in {"idle", "done"}
    /\ \A h \in handlers : h.proc # p
    /\ budget[p] > 0
    /\ \E u \in UUIDs, o \in LoadOffsets, n \in 0..MaxImages, sz \in LoadSizes :
       \E bad \in 0..n :
          LET id == LocalIDFromUUID(dag, u)
              back == n = 0 \/ id.err # NoErr
              err == IF n = 0 THEN NoErr ELSE id.err
          IN  /\ procs' = [procs EXCEPT ![p] =
                     [IdleProc EXCEPT
                         !.pc = IF back THEN "done" ELSE "vmLookup",
                         !.op = "LoadXY", !.uuid = u, !.vid = id.vid,
                         !.lerr = err, !.err = err,
                         !.before = store, !.extBefore = extents,
                         !.wasLocked = dag[u].locked]]
              /\ load' = IF back THEN load
                         ELSE [pc |-> "lock", proc |-> p, uuid |-> u,
                               vid |-> id.vid, err |-> NoErr, offset |-> o,
                               fileNum |-> 1, n |-> n, size |-> sz, bad |-> bad,
                               images |-> << >>, blocks |-> << << >>, << >> >>,
                               curBlocks |-> 0, numBlocks |-> 0, slices |-> {},
                               writer |-> NoWriter, extentChanged |-> FALSE,
                               before |-> store, handed |-> << >>,
                               committed |-> << >>, wslot |-> 0,
                               inflight |-> 0]
    /\ budget' = [budget EXCEPT ![p] = @ - 1]
    /\ UNCHANGED << dag, saved, extents, store, versionMutexes, mutexes, tokens,
                    handlers, menu, lastPut, svc, fatal, faults, codecVars,
                    xferVars, pureVars >>

\* versionMutex.Lock()
LoadXYLock(p) ==
    /\ ~fatal
    /\ procs[p].pc = "lock"
    /\ procs[p].op = "LoadXY"
    /\ mutexes[procs[p].vmutex] = 0
    /\ mutexes' = [mutexes EXCEPT ![procs[p].vmutex] = p]
    /\ procs' = [procs EXCEPT ![p].pc = "load"]
    /\ load' = [load EXCEPT !.pc = "file"]
    /\ UNCHANGED << dag, saved, extents, store, versionMutexes, tokens, handlers,
                    budget, menu, lastPut, svc, fatal, faults, codecVars,
                    xferVars, pureVars >>

\* one turn of the file loop up to the go statement: the image is loaded,
\* the block buffers are made and filled with the stored blocks for the
\* first file and for the first slice of the last layer, and the goroutine
\* of the slice is started
LoadFile ==
    /\ ~fatal
    /\ load.pc = "file"
    /\ LET zInBlock == Value(load.offset, 2) % Value(BlockSize, 2)
           firstSlice == load.fileNum = 1
           lastSlice == load.fileNum = load.n
           firstSliceInBlock == firstSlice \/ zInBlock = 0
           lastSliceInBlock == lastSlice \/ zInBlock = Value(BlockSize, 2) - 1
           lastBlocks == load.fileNum + Value(BlockSize, 2) > load.n
           e == NewVoxels(NewOrthogSlice(XY, load.offset, load.size), BytesPerVoxel,
                          FileData(load.fileNum,
                                   BytesPerVoxel * load.size[1] * load.size[2]))
           alloc == load.fileNum = 1 \/ (lastBlocks /\ firstSliceInBlock)
           numBlocks == IF alloc THEN GetNumBlocks(e, BlockSize) ELSE load.numBlocks
           fresh == NewBlocks(numBlocks, Prod(BlockSize) * BytesPerVoxel)
           made == IF load.fileNum = 1 THEN << fresh, fresh >>
                   ELSE IF alloc
                   THEN [load.blocks EXCEPT ![load.curBlocks + 1] = fresh]
                   ELSE load.blocks
           old == loadOldBlocks(e, made[load.curBlocks + 1], load.vid, store)
       IN  IF load.fileNum > load.n
           THEN load' = [load EXCEPT !.pc = "defer"]
           ELSE IF load.fileNum = load.bad
           THEN load' = [load EXCEPT !.pc = "defer", !.err = "image file"]
           ELSE IF alloc /\ old.err # NoErr
           THEN load' = [load EXCEPT !.pc = "defer", !.err = old.err,
                                     !.blocks = made, !.numBlocks = numBlocks]
           ELSE load' = [load EXCEPT
                   !.numBlocks = numBlocks,
                   !.blocks = IF alloc
                              THEN [made EXCEPT ![load.curBlocks + 1] = old.blocks]
                              ELSE made,
                   !.images = Append(@, e),
                   !.slices = @ \cup {[file |-> load.fileNum, e |-> e]},
                   !.pc = IF lastSliceInBlock THEN "wait" ELSE "file",
                   !.fileNum = IF lastSliceInBlock THEN @ ELSE @ + 1,
                   !.offset = IF lastSliceInBlock THEN @
                              ELSE [@ EXCEPT ![3] = @ + 1]]
    /\ UNCHANGED << dag, saved, extents, store, versionMutexes, mutexes, tokens,
                    handlers, procs, budget, menu, lastPut, svc, fatal, faults,
                    codecVars, xferVars, pureVars >>

\* the goroutine of one slice: AdjustPoints, then writeXYImage into the
\* block buffers that are current when it runs
LoadSlice(g) ==
    /\ ~fatal
    /\ g \in load.slices
    /\ LET adj == AdjustPoints(extents, StartPoint(g.e), EndPoint(g.e))
           w == writeXYImage(adj.ext, g.e, load.blocks[load.curBlocks + 1], load.vid)
       IN  IF w.panic
           THEN /\ fatal' = TRUE
                /\ UNCHANGED << extents, load >>
           ELSE /\ extents' = w.ext
                /\ load' = [load EXCEPT
                      !.blocks[load.curBlocks + 1] = w.blocks,
                      !.extentChanged = @ \/ adj.changed \/ w.changed,
                      !.slices = @ \ {g}]
                /\ fatal' = FALSE
    /\ UNCHANGED << dag, saved, store, versionMutexes, mutexes, tokens, handlers,
                    procs, budget, menu, lastPut, svc, faults, codecVars,
                    xferVars, pureVars >>

\* AsyncWriteData starting the write of a layer without waiting for the
\* write before it
LoadAsyncWriteNoWait ==
    /\ ~fatal
    /\ load.pc = "wait"
    /\ load.slices = {}
    /\ tokens > 0
    /\ tokens' = tokens - 1
    /\ load' = [load EXCEPT
          !.writer = load.blocks[load.curBlocks + 1],
          !.wslot = load.curBlocks,
          !.inflight = @ + 1,
          !.handed = Append(@, load.blocks[load.curBlocks + 1]),
          !.curBlocks = (@ + 1) % 2,
          !.fileNum = @ + 1,
          !.offset = [@ EXCEPT ![3] = @ + 1],
          !.pc = "file"]
    /\ UNCHANGED << dag, saved, extents, store, versionMutexes, mutexes,
                    handlers, procs, budget, menu, lastPut, svc, fatal, faults,
                    codecVars, xferVars, pureVars >>

\* the last slice of a layer: blockWait.Wait(), then AsyncWriteData, which
\* waits for the write before it, takes a handler token and starts the
\* write of the slot of the layer; the loop goes on with the other slot
LoadAsyncWrite ==
    /\ ~fatal
    /\ load.pc = "wait"
    /\ load.slices = {}
    /\ load.writer = NoWriter
    /\ tokens > 0
    /\ tokens' = tokens - 1
    /\ load' = [load EXCEPT
          !.writer = load.blocks[load.curBlocks + 1],
          !.wslot = load.curBlocks,
          !.inflight = @ + 1,
          !.handed = Append(@, load.blocks[load.curBlocks + 1]),
          !.curBlocks = (@ + 1) % 2,
          !.fileNum = @ + 1,
          !.offset = [@ EXCEPT ![3] = @ + 1],
          !.pc = "file"]
    /\ UNCHANGED << dag, saved, extents, store, versionMutexes, mutexes,
                    handlers, procs, budget, menu, lastPut, svc, fatal, faults,
                    codecVars, xferVars, pureVars >>

\* the goroutine of AsyncWriteData: the blocks of the slot, as they are
\* when it runs, are serialized and committed, the token returned and
\* wg.Done() called
LoadWrite ==
    /\ ~fatal
    /\ load.pc # "off"
    /\ load.writer # NoWriter
    /\ store' = PutBlocks(store, load.blocks[load.wslot + 1], 1)
    /\ tokens' = tokens + 1
    /\ load' = [load EXCEPT !.writer = NoWriter,
                            !.inflight = @ - 1,
                            !.committed = Append(@, load.blocks[load.wslot + 1])]
    /\ UNCHANGED << dag, saved, extents, versionMutexes, mutexes, handlers,
                    procs, budget, menu, lastPut, svc, fatal, faults, codecVars,
                    xferVars, pureVars >>

\* LoadXY returning without waiting for the write in flight
LoadReturnNoWait(p) ==
    /\ ~fatal
    /\ load.pc = "defer"
    /\ load.proc = p
    /\ mutexes' = [mutexes EXCEPT ![procs[p].vmutex] = 0]
    /\ saved' = IF load.extentChanged
                THEN [dag |-> dag, extents |-> extents] ELSE saved
    /\ procs' = [procs EXCEPT
          ![p].pc = "done", ![p].err = load.err,
          ![p].extentChanged = load.extentChanged,
          ![p].saves = IF load.extentChanged THEN @ + 1 ELSE @]
    /\ load' = [load EXCEPT !.pc = "done"]
    /\ UNCHANGED << dag, extents, store, versionMutexes, tokens, handlers,
                    budget, menu, lastPut, svc, fatal, faults, codecVars,
                    xferVars, pureVars >>

\* the return and its deferred function: writeWait.Wait(), Unlock, then
\* SaveDataset if an extent changed, whose error is only logged
LoadReturn(p) ==
    /\ ~fatal
    /\ load.pc = "defer"
    /\ load.proc = p
    /\ load.writer = NoWriter
    /\ mutexes' = [mutexes EXCEPT ![procs[p].vmutex] = 0]
    /\ \E saveFails \in (IF faults > 0 /\ load.extentChanged
                         THEN BOOLEAN ELSE {FALSE}) :
          /\ saved' = IF load.extentChanged /\ ~saveFails
                      THEN [dag |-> dag, extents |-> extents] ELSE saved
          /\ procs' = [procs EXCEPT
                ![p].pc = "done", ![p].err = load.err,
                ![p].extentChanged = load.extentChanged,
                ![p].saveFailed = saveFails,
                ![p].saves = IF load.extentChanged THEN @ + 1 ELSE @]
          /\ faults' = IF saveFails THEN faults - 1 ELSE faults
    /\ load' = [load EXCEPT !.pc = "done"]
    /\ UNCHANGED << dag, extents, store, versionMutexes, tokens, handlers,
                    budget, menu, lastPut, svc, fatal, codecVars,
                    xferVars, pureVars >>

Init ==
    /\ InitEngine([p \in Procs |-> 1], ConcGeometries)
    /\ faults = 0
    /\ CodecOff
    /\ XferOff
    /\ PureOff

InitSeq ==
    /\ InitEngine([p \in Procs |-> IF p = 1 THEN MaxOps ELSE 0], SeqGeometries)
    /\ faults = 0
    /\ CodecOff
    /\ XferOff
    /\ PureOff

Next ==
    \/ \E p \in Procs : PutImage(p)
    \/ \E p \in Procs : VersionMutexLookup(p)
    \/ \E p \in Procs : VersionMutexInsert(p)
    \/ \E p \in Procs : PutImageLock(p)
    \/ \E p \in Procs : PutImageSpan(p)
    \/ \E p \in Procs : PutImageDispatch(p)
    \/ \E h \in handlers : processChunk(h)
    \/ \E p \in Procs : PutImageReturn(p)

NextSeq ==
    \/ Next
    \/ \E p \in Procs : GetVoxels(p)
    \/ \E p \in Procs : GetVoxelsSpan(p)
    \/ \E p \in Procs : GetVoxelsDispatch(p)
    \/ \E p \in Procs : GetVoxelsReturn(p)
    \/ \E p \in Procs : ServiceLock(p)
    \/ \E p \in Procs : ServiceNewVersion(p)

Spec == Init /\ [][Next]_vars

SpecSeq == InitSeq /\ [][NextSeq]_vars

(***************************************************************************)
(* SpecFault: one caller, and a backend that fails or a stored record that *)
(* is altered at rest, MaxFaults times in all.                             *)
(***************************************************************************)
FaultGeometries ==
    {NewOrthogSlice(XY, o, << 2, 2 >>) : o \in {<< 0, 0, 0 >>, << 1, 1, 1 >>}}

\* the frame byte, the first checksum byte, the last data byte
CorruptPositions(s) == {1, 2, Len(s)}

\* one byte of one stored record changes while no call is running
CorruptBlock ==
    /\ ~fatal
    /\ faults > 0
    /\ handlers = {}
    /\ \A p \in Procs : procs[p].pc \in {"idle", "done"}
    /\ \E k \in DOMAIN store :
          \E i \in CorruptPositions(store[k]) :
             store' = [store EXCEPT ![k][i] = (@ + 1) % 256]
    /\ faults' = faults - 1
    /\ UNCHANGED << dag, saved, extents, versionMutexes, mutexes, tokens,
                    handlers, procs, budget, menu, lastPut, svc, fatal, load,
                    codecVars, xferVars, pureVars >>

InitFault ==
    /\ InitEngine([p \in Procs |-> IF p = 1 THEN MaxOps ELSE 0], FaultGeometries)
    /\ faults = MaxFaults
    /\ CodecOff
    /\ XferOff
    /\ PureOff

NextFault ==
    \/ NextSeq
    \/ \E p \in Procs : PutImageRangeFails(p)
    \/ \E p \in Procs : GetVoxelsRangeFails(p)
    \/ CorruptBlock

SpecFault == InitFault /\ [][NextFault]_vars

(***************************************************************************)
(* SpecLoad: one caller that puts images and loads one list of XY files.   *)
(***************************************************************************)
InitLoad ==
    /\ InitEngine([p \in Procs |-> IF p = 1 THEN MaxOps ELSE 0], LoadGeometries)
    /\ faults = 0
    /\ CodecOff
    /\ XferOff
    /\ PureOff

NextLoad ==
    \/ Next
    \/ \E p \in Procs : LoadXY(p)
    \/ \E p \in Procs : LoadXYLock(p)
    \/ LoadFile
    \/ \E g \in load.slices : LoadSlice(g)
    \/ LoadAsyncWrite
    \/ LoadWrite
    \/ \E p \in Procs : LoadReturn(p)

SpecLoad == InitLoad /\ [][NextLoad]_vars

(***************************************************************************)
(* What a transfer is expected to do, stated voxel by voxel.               *)
(***************************************************************************)
\* the voxel coordinate of the view byte i (row-major, first axis fastest)
ViewVoxel(v, i) ==
    LET n == (i - 1) \div v.bpv
        w == v.size[1]
    IN  IF Len(v.size) = 2
        THEN [d \in 1..3 |->
                v.offset[d] + (IF d = v.shape.shape[1] + 1 THEN n % w
                               ELSE IF d = v.shape.shape[2] + 1 THEN n \div w
                               ELSE 0)]
        ELSE << v.offset[1] + (n % w),
                v.offset[2] + ((n \div w) % v.size[2]),
                v.offset[3] + (n \div (w * v.size[2])) >>

InBlock(pt, idx, blockSize) ==
    \A d \in 1..3 : /\ FirstPoint(idx, blockSize)[d] <= pt[d]
                    /\ pt[d] <= LastPoint(idx, blockSize)[d]

\* the position in the block buffer (x fastest) of the byte of view byte i
BlockPos(v, i, idx, blockSize) ==
    LET l == PointSub(ViewVoxel(v, i), FirstPoint(idx, blockSize))
    IN  ((l[3] * blockSize[2] + l[2]) * blockSize[1] + l[1]) * v.bpv
        + ((i - 1) % v.bpv) + 1

\* the view bytes whose voxel lies in the block
Shared(v, idx, blockSize) ==
    {i \in 1..Len(v.data) : InBlock(ViewVoxel(v, i), idx, blockSize)}

ExpectedRead(v, blockV, idx, blockSize) ==
    [i \in 1..Len(v.data) |->
        IF i \in Shared(v, idx, blockSize)
        THEN blockV[BlockPos(v, i, idx, blockSize)] ELSE v.data[i]]

ExpectedWrite(v, blockV, idx, blockSize) ==
    [j \in 1..Len(blockV) |->
        IF \E i \in Shared(v, idx, blockSize) : BlockPos(v, i, idx, blockSize) = j
        THEN v.data[CHOOSE i \in Shared(v, idx, blockSize) :
                        BlockPos(v, i, idx, blockSize) = j]
        ELSE blockV[j]]

(***************************************************************************)
(* Claims.                                                                 *)
(***************************************************************************)

\* a caller is inside the read-modify-write section of PutImage: it has
\* locked the version mutex and not yet unlocked it
InSection(p) ==
    /\ procs[p].op = "PutImage"
    /\ procs[p].pc \in {"span", "dispatch", "wait"}

\* the stored blocks, deserialized
Decoded(st) == [k \in DOMAIN st |-> DeserializeData(st[k], TRUE).data]

\* the block bytes that hold a voxel of the view
Covered(v, idx, blockSize) ==
    {BlockPos(v, i, idx, blockSize) : i \in Shared(v, idx, blockSize)}

\* the blocks after a put of view v on a version, stated voxel by voxel
Painted(dec, versionID, v) ==
    LET ks == {DataKey(versionID, idx) : idx \in BlockRange(v, BlockSize)}
    IN  [k \in DOMAIN dec \cup ks |->
            IF k \in ks
            THEN ExpectedWrite(v,
                     IF k \in DOMAIN dec THEN dec[k]
                     ELSE Zeros(Prod(BlockSize) * v.bpv),
                     k.index, BlockSize)
            ELSE dec[k]]

Overlap(v1, v2) ==
    \E i \in 1..Len(v1.data), j \in 1..Len(v2.data) :
        ViewVoxel(v1, i) = ViewVoxel(v2, j)

SameGeometry(v1, v2) ==
    /\ v1.shape = v2.shape
    /\ v1.offset = v2.offset
    /\ v1.size = v2.size

\* C1: for every (dataset, data, version), at most one PutImage is inside
\* its read-modify-write section at any time, also when the callers are the
\* first to ask VersionMutex for that version's mutex.
C1_OneWriterPerVersion ==
    \A p \in Procs, q \in Procs :
        (p # q /\ InSection(p) /\ InSection(q)) => procs[p].vid # procs[q].vid

\* C2: when two concurrent PutImage calls with overlapping views on the same
\* version have both returned, the stored blocks equal the blocks after the
\* two puts applied one after the other in one of the two orders.
C2_ConcurrentPutsSerialize ==
    \A p \in Procs, q \in Procs :
        (/\ p # q
         /\ \A r \in Procs : procs[r].pc = (IF r \in {p, q} THEN "done" ELSE "idle")
         /\ procs[p].op = "PutImage" /\ procs[q].op = "PutImage"
         /\ procs[p].err = NoErr /\ procs[q].err = NoErr
         /\ procs[p].vid = procs[q].vid
         /\ Overlap(procs[p].orig, procs[q].orig)) =>
            Decoded(store) \in
                {Painted(Painted(<< >>, procs[p].vid, procs[p].orig),
                         procs[p].vid, procs[q].orig),
                 Painted(Painted(<< >>, procs[p].vid, procs[q].orig),
                         procs[p].vid, procs[p].orig)}

\* C3: a GetVoxels of a view that follows a PutImage of the same view (XY,
\* XZ, YZ slice or 3d subvolume, block-aligned or not) on the same version
\* fills the get buffer with the bytes that were put.
C3_PutGetRoundTrip ==
    \A p \in Procs :
        (/\ procs[p].pc = "done"
         /\ procs[p].op = "GetVoxels"
         /\ procs[p].err = NoErr
         /\ lastPut.uuid = procs[p].uuid
         /\ SameGeometry(lastPut.view, procs[p].view)) =>
            procs[p].view.data = lastPut.view.data

\* C4: after a PutImage call, in every block that intersects the view,
\* every byte that lies outside the view equals its stored value from
\* before the call, zero if the block did not exist.
C4_PutLeavesOutsideBytes ==
    \A p \in Procs :
        (/\ procs[p].pc = "done"
         /\ procs[p].op = "PutImage"
         /\ procs[p].err = NoErr) =>
            \A idx \in BlockRange(procs[p].orig, BlockSize) :
                LET k == DataKey(procs[p].vid, idx)
                    n == Prod(BlockSize) * procs[p].orig.bpv
                    old == IF k \in DOMAIN procs[p].before
                           THEN DeserializeData(procs[p].before[k], TRUE).data
                           ELSE Zeros(n)
                IN  /\ k \in DOMAIN store
                    /\ \A j \in (1..n) \ Covered(procs[p].orig, idx, BlockSize) :
                           DeserializeData(store[k], TRUE).data[j] = old[j]

\* a put onto a block that held bytes of an earlier put outside the view,
\* which changed the block
C4_Witness ==
    \E p \in Procs :
        /\ procs[p].pc = "done"
        /\ procs[p].op = "PutImage"
        /\ procs[p].err = NoErr
        /\ \E idx \in BlockRange(procs[p].orig, BlockSize) :
              LET k == DataKey(procs[p].vid, idx)
              IN  /\ k \in DOMAIN procs[p].before
                  /\ k \in DOMAIN store
                  /\ store[k] # procs[p].before[k]
                  /\ \E j \in (1..(Prod(BlockSize) * procs[p].orig.bpv))
                               \ Covered(procs[p].orig, idx, BlockSize) :
                         DeserializeData(procs[p].before[k], TRUE).data[j] # 0

SupportedTransfer(v, blockSize) ==
    /\ Len(blockSize) <= 3
    /\ \/ Equals(v.shape, XY) \/ Equals(v.shape, XZ)
       \/ Equals(v.shape, YZ) \/ Equals(v.shape, Vol3d)

\* C5: for each of the XY, XZ, YZ and 3d subvolume views, ReadFromBlock
\* copies the view/block intersection from the block buffer into the view
\* buffer and leaves the block buffer unchanged, and WriteToBlock copies the
\* intersection from the view buffer into the block buffer and leaves the
\* view buffer unchanged.
C5_TransferDirection ==
    xstage = "done" /\ SupportedTransfer(xin.v, xin.bs) =>
        /\ xout.r.err = NoErr
        /\ ~xout.r.panic
        /\ xout.op = GetOp =>
              /\ xout.r.b = xin.blockV
              /\ xout.r.d = ExpectedRead(xin.v, xin.blockV, xin.idx, xin.bs)
        /\ xout.op = PutOp =>
              /\ xout.r.d = xin.v.data
              /\ xout.r.b = ExpectedWrite(xin.v, xin.blockV, xin.idx, xin.bs)

\* C6: a PutImage to a version node that has been locked fails with an
\* error and leaves every stored block and the extents unchanged.
C6_WriteToLockedFails ==
    \A p \in Procs :
        (/\ procs[p].pc = "done"
         /\ procs[p].op = "PutImage"
         /\ procs[p].wasLocked) =>
            /\ procs[p].err # NoErr
            /\ store = procs[p].before
            /\ extents = procs[p].extBefore

C8_RoundTrip ==
    (/\ cstage \in {"ser", "des"}
     /\ calt = 0
     /\ cin.c \in {Uncompressed, Snappy}
     /\ cin.k \in {NoChecksum, CRC32}) =>
        /\ cser.err = NoErr
        /\ (cstage = "des" /\ cin.un) =>
              /\ cout.err = NoErr
              /\ cout.data = cin.p
              /\ cout.compress = cin.c

C8_Witness ==
    /\ cstage = "des"
    /\ calt = 0
    /\ cin.un
    /\ cin.c = Snappy
    /\ cin.k = CRC32
    /\ Len(cin.p) >= 2
    /\ cout.data = cin.p

\* C9: DeserializeData returns an error for every record whose frame
\* declares crc32 and whose stored CRC differs from the CRC of the stored
\* body, for both compressions and both values of the uncompress flag.
C9_CrcMismatchFails ==
    (/\ cstage = "des"
     /\ Len(cser.s) >= 5
     /\ DecodeSerializationFormat(cser.s[1]).checksum = CRC32
     /\ DecodeSerializationFormat(cser.s[1]).compress \in {Uncompressed, Snappy}
     /\ SubSeq(cser.s, 2, 5) # ChecksumIEEE(SubSeqFrom(cser.s, 6))) =>
        cout.err # NoErr

\* C10: the frame byte written by SerializeData is (compression << 4) |
\* checksum with the codes none = 0, snappy = 1 and none = 0, crc32 = 1, so a
\* snappy + crc32 record starts with byte 0x11; DecodeSerializationFormat
\* inverts EncodeSerializationFormat for the defined formats.
C10_FrameByte ==
    (/\ cstage = "ser"
     /\ calt = 0
     /\ cin.c \in {Uncompressed, Snappy}
     /\ cin.k \in {NoChecksum, CRC32}) =>
        /\ cser.err = NoErr
        /\ cser.s[1] = 16 * (IF cin.c = Snappy THEN 1 ELSE 0)
                       + (IF cin.k = CRC32 THEN 1 ELSE 0)
        /\ DecodeSerializationFormat(EncodeSerializationFormat(cin.c, cin.k))
             = [compress |-> cin.c, checksum |-> cin.k]

\* C20: transferBlock returns an error and changes neither the view buffer
\* nor the block buffer when the view's shape is none of XY, XZ, YZ and 3d
\* subvolume, or when the block size has more than three dimensions.
C20_UnsupportedTransferFails ==
    xstage = "done" /\ ~SupportedTransfer(xin.v, xin.bs) =>
        /\ xout.r.err # NoErr
        /\ xout.r.d = xin.v.data
        /\ xout.r.b = xin.blockV

C20_Witness ==
    /\ xstage = "done"
    /\ xout.op = PutOp
    /\ Len(xin.bs) > 3
    /\ Equals(xin.v.shape, XY)
    /\ xout.r.err # NoErr

\* C16: AdjustPoints and AdjustIndices return true exactly when the call
\* moved at least one bound of the extents (the minimum, the maximum or
\* both, the first initialisation included), whatever the prior extents and
\* the arguments.
C16_ChangedIffExtended ==
    fstage = "done" =>
        (fout.r.changed <=> fout.r.ext # fin.ext)

\* the product of the sizes is above n (sizes >= 0, 0 <= n), without
\* forming the product
RECURSIVE CountExceeds(_, _)
CountExceeds(size, n) ==
    IF Len(size) = 0 THEN n < 1
    ELSE IF Head(size) = 0 THEN FALSE
    ELSE CountExceeds(Tail(size), n \div Head(size))

\* C19: NewExtHandler without image data returns an error and allocates no
\* buffer when the voxel count of the slice or subvolume is above
\* MaxVoxelsRequest, for all 32-bit sizes, those whose product does not fit
\* in 32 bits included, and when the voxel count is zero or less.
C19_LargeRequestRejected ==
    fstage = "done" /\ (CountExceeds(fin, MaxVoxelsRequest) \/ \E i \in 1..Len(fin) : fin[i] = 0) =>
        /\ fout.err # NoErr
        /\ fout.alloc = 0

\* C11: when a block record of the range GetVoxels reads does not decode
\* (checksum mismatch, unknown frame byte, decompression failure), the call
\* returns an error to its caller: it neither returns success nor ends the
\* program.
C11_BadRecordFailsGet ==
    \A p \in Procs :
        procs[p].op = "GetVoxels" /\ procs[p].sawBad =>
            /\ ~fatal
            /\ procs[p].pc = "done" => procs[p].err # NoErr

\* C12: when the backend write of a block fails during PutImage, the call
\* returns an error, and the blocks written before stay stored.
C12_FailedWriteFailsPut ==
    \A p \in Procs :
        procs[p].op = "PutImage" /\ procs[p].pc = "done" /\ procs[p].putFailed =>
            procs[p].err # NoErr

\* C15: GetVoxels returns only after every chunk handler it started has
\* ended, on every path: no handler of a returned call is running or has
\* written the view after the return.
C15_GetWaitsForHandlers ==
    \A p \in Procs :
        procs[p].op = "GetVoxels" /\ procs[p].pc = "done" =>
            /\ ~procs[p].late
            /\ \A h \in handlers : h.proc # p

\* the component-wise bounds of a set of points, nil for no point
MinOver(S) ==
    IF S = {} THEN NilPoint
    ELSE [d \in 1..3 |-> CHOOSE m \in {q[d] : q \in S} : \A q \in S : m <= q[d]]
MaxOver(S) ==
    IF S = {} THEN NilPoint
    ELSE [d \in 1..3 |-> CHOOSE m \in {q[d] : q \in S} : \A q \in S : m >= q[d]]

\* the PutImage calls that have passed AdjustPoints
Writers == {p \in Procs : /\ procs[p].op = "PutImage"
                          /\ procs[p].pc \in {"span", "dispatch", "wait", "done"}
                          /\ procs[p].lerr = NoErr}

\* the block spans of a call that have passed AdjustIndices
AdjustedSpans(p) ==
    LET all == IndexIterator(procs[p].orig, BlockSize)
        left == IF procs[p].pc = "dispatch" THEN Len(procs[p].spans) - 1
                ELSE Len(procs[p].spans)
    IN  {all[i] : i \in 1..(Len(all) - left)}

\* C17: under every interleaving of writes the point extents are the
\* component-wise minimum of the start points and maximum of the end points
\* of all views written so far, and the index extents are the same bounds
\* of all block spans written so far: no bound shrinks and no update of a
\* concurrent writer is lost.
C17_ExtentsAreBounds ==
    LET spans == UNION {AdjustedSpans(p) : p \in Writers}
    IN  /\ extents.MinPoint = MinOver({StartPoint(procs[p].orig) : p \in Writers})
        /\ extents.MaxPoint = MaxOver({EndPoint(procs[p].orig) : p \in Writers})
        /\ extents.MinIndex = MinOver({sp.beg : sp \in spans})
        /\ extents.MaxIndex = MaxOver({sp.end : sp \in spans})

C17_Witness ==
    /\ Writers = Procs
    /\ procs[1].orig # procs[2].orig
    /\ \A p \in Procs : procs[p].pc = "done"
    /\ extents.MinPoint = << 0, 0, 0 >>
    /\ extents.MaxPoint = << 2, 2, 0 >>
    /\ extents.MinIndex = << 0, 0, 0 >>
    /\ extents.MaxIndex = << 1, 1, 0 >>

\* C18: a PutImage call that changed any of MinPoint, MaxPoint, MinIndex,
\* MaxIndex has invoked SaveDataset by the time it returns, and a call that
\* changed no bound has not invoked it.
C18_SaveIffExtentsChanged ==
    \A p \in Procs :
        procs[p].op = "PutImage" /\ procs[p].pc = "done" /\ procs[p].lerr = NoErr =>
            (procs[p].saves > 0 <=> extents # procs[p].extBefore)

\* the store after one PutImage of view v that ran alone: every block of
\* the view read, overlaid with the view's voxels and written back
RECURSIVE PutBlocksOf(_, _, _, _, _)
PutBlocksOf(st, versionID, v, idxs, i) ==
    IF i > Len(idxs) THEN st
    ELSE LET k == DataKey(versionID, idxs[i])
             buf == BlockBuffer(IF k \in DOMAIN st THEN st[k] ELSE NilValue,
                                Prod(BlockSize) * v.bpv)
             r == WriteToBlock(v, buf.data, idxs[i], BlockSize)
         IN  PutBlocksOf(Put(st, k, SerializeData(r.b, Snappy, CRC32).s),
                         versionID, v, idxs, i + 1)
PutImageStore(st, versionID, v) ==
    PutBlocksOf(st, versionID, v, BlockIndices(v, BlockSize), 1)

\* the store after PutImage of each view of a list in turn
RECURSIVE PutImagesStore(_, _, _, _)
PutImagesStore(st, versionID, views, i) ==
    IF i > Len(views) THEN st
    ELSE PutImagesStore(PutImageStore(st, versionID, views[i]), versionID,
                        views, i + 1)

\* C13: LoadXY of a list of XY images from a start offset leaves the same
\* stored block bytes as PutImage called once per image at successive z
\* offsets, for every start offset, image size and prior store content.
C13_LoadEqualsPuts ==
    \A p \in Procs :
        (/\ procs[p].op = "LoadXY"
         /\ procs[p].pc = "done"
         /\ load.pc = "done"
         /\ load.err = NoErr) =>
            store = PutImagesStore(load.before, load.vid, load.images, 1)

RootView ==
    NewVoxels(NewOrthogSlice(XY, << 1, 1, 1 >>, << 2, 2 >>), BytesPerVoxel,
              [i \in 1..4 |-> 200 + i])

\* a key of another data instance of the same dataset
OtherDataKey(versionID, index) ==
    [data |-> "dataset1/data2", version |-> versionID, index |-> index]

InitBranch ==
    /\ dag = [u \in UUIDs |->
                IF u = UUIDOf(1)
                THEN [exists |-> TRUE, locked |-> TRUE, vid |-> 1, parent |-> 0]
                ELSE IF u = UUIDOf(2)
                THEN [exists |-> TRUE, locked |-> FALSE, vid |-> 2,
                      parent |-> UUIDOf(1)]
                ELSE NoNode]
    /\ extents = AdjustIndices(
                    AdjustPoints(NilExtents, StartPoint(RootView),
                                 EndPoint(RootView)).ext,
                    << 0, 0, 0 >>, << 1, 1, 0 >>).ext
    /\ saved = [dag |-> dag, extents |-> extents]
    /\ store = Put(PutImageStore(<< >>, 1, RootView),
                   OtherDataKey(2, << 0, 0, 0 >>),
                   SerializeData(Zeros(Prod(BlockSize)), Snappy, CRC32).s)
    /\ versionMutexes = [id \in 0..MaxNodes |-> IF id = 1 THEN 1 ELSE 0]
    /\ mutexes = << 0 >>
    /\ tokens = NumTokens
    /\ handlers = {}
    /\ procs = [p \in Procs |-> IdleProc]
    /\ budget = [p \in Procs |-> IF p = 1 THEN MaxOps ELSE 0]
    /\ menu = FaultGeometries
    /\ lastPut = NoPut
    /\ svc = NoCall
    /\ fatal = FALSE
    /\ load = NoLoad
    /\ faults = 0
    /\ CodecOff
    /\ XferOff
    /\ PureOff

SpecBranch == InitBranch /\ [][NextSeq]_vars

\* C21: while and after a PutImage on version v runs, every stored block
\* of another version, of another data instance or at a block index that
\* does not intersect the view is what it was before the call, so the
\* ranges read at any other version (the locked parent of a branched child
\* among them) are unchanged.
C21_PutWritesOnlyItsBlocks ==
    \A p \in Procs :
        procs[p].op = "PutImage" =>
            /\ \A k \in DOMAIN store \cup DOMAIN procs[p].before :
                  (\/ k.data # DataID
                   \/ k.version # procs[p].vid
                   \/ k.index \notin BlockRange(procs[p].orig, BlockSize)) =>
                      /\ k \in DOMAIN store
                      /\ k \in DOMAIN procs[p].before
                      /\ store[k] = procs[p].before[k]
            /\ \A w \in (1..MaxNodes) \ {procs[p].vid} :
                  \A g \in menu \cup {RootView} :
                     LET sps == IndexIterator(g, BlockSize)
                     IN  \A n \in 1..Len(sps) :
                            GetRange(store, w, sps[n].beg, sps[n].end) =
                            GetRange(procs[p].before, w, sps[n].beg, sps[n].end)

\* a put on the branched child has returned and changed the store, which
\* holds blocks of the locked parent and a block of another data instance
C21_Witness ==
    \E p \in Procs :
        /\ procs[p].op = "PutImage"
        /\ procs[p].pc = "done"
        /\ procs[p].err = NoErr
        /\ dag[procs[p].uuid].parent # 0
        /\ dag[dag[procs[p].uuid].parent].locked
        /\ store # procs[p].before
        /\ \E k \in DOMAIN store :
              k.data = DataID /\ k.version = dag[dag[procs[p].uuid].parent].vid
        /\ \E k \in DOMAIN store : k.data # DataID /\ k.version = procs[p].vid

(***************************************************************************)
(* SpecWriter: AsyncWriteData on its own.  A caller submits a list of      *)
(* blocks MaxSubmits times to one wait group; the goroutine of a submit    *)
(* runs record by record.  The backend is a batcher or not, and one of its *)
(* calls (or one serialization) may fail during the first submit.          *)
(***************************************************************************)
KVWriteSize == 500

\* the numbers of blocks submitted: none, one, and around one and two
\* batches
WriterCounts == {0, 1, KVWriteSize - 1, KVWriteSize, KVWriteSize + 1,
                 2 * KVWriteSize + 1}
\* the record at which the failing call strikes (counted from 0)
WriterFailAt == {0, KVWriteSize - 1, KVWriteSize}
WriterFailures == {"none", "serialize", "commit", "putrange"}

WriterBlocks(n) ==
    [i \in 1..n |-> [K |-> DataKey(1, << i - 1, 0, 0 >>), V |-> << i % 2 >>]]

WriterInputs ==
    {in \in [n : WriterCounts, batcher : BOOLEAN, fail : WriterFailures,
             failAt : WriterFailAt] :
        /\ in.fail = "none" => in.failAt = 0
        /\ in.fail = "commit" => in.batcher
        /\ in.fail = "putrange" => ~in.batcher /\ in.failAt = 0}

IdleWriter ==
    [tokens |-> NumTokens, wg |-> 0, submits |-> 0, i |-> 0, batch |-> << >>,
     commits |-> << >>, ranges |-> << >>, closed |-> FALSE, failed |-> "none",
     taken |-> 0, returned |-> 0, dones |-> 0]

InitWriter ==
    /\ fstage = "idle"
    /\ fin \in WriterInputs
    /\ fout = IdleWriter
    /\ CodecOff
    /\ XferOff
    /\ EngineOff

\* the failing call of the run: it strikes at record i of the first submit
WriterFails(kind, i) ==
    /\ fin.fail = kind
    /\ fout.submits = 1
    /\ fin.failAt = i

\* AsyncWriteData up to the go statement: wg.Wait(), wg.Add(1) and a
\* handler token taken
WriterSubmit ==
    /\ fstage \in {"idle", "done"}
    /\ fout.submits < MaxSubmits
    /\ fout.wg = 0
    /\ fout.tokens > 0
    /\ fout' = [fout EXCEPT !.wg = 1, !.tokens = @ - 1, !.taken = @ + 1,
                            !.submits = @ + 1, !.i = 0, !.batch = << >>,
                            !.commits = << >>, !.ranges = << >>,
                            !.closed = FALSE, !.failed = "none"]
    /\ fstage' = IF fin.batcher THEN "batch" ELSE "range"
    /\ UNCHANGED << fin, codecVars, xferVars, engineVars >>

\* the commit of a batch made only after the last record
CommitDueLastOnly(i, n) == i = n - 1
\* the commit condition of the batch loop
CommitDue(i, n) == i % KVWriteSize = KVWriteSize - 1 \/ i = n - 1

\* one turn of the batch loop: the record is serialized and put into the
\* batch, and the batch is committed and cleared when it is due; after the
\* last turn the batch is closed
WriterBatchStep ==
    /\ fstage = "batch"
    /\ IF fout.i >= fin.n
       THEN /\ fout' = [fout EXCEPT !.closed = TRUE]
            /\ fstage' = "exit"
       ELSE LET block == WriterBlocks(fin.n)[fout.i + 1]
                ser == SerializeData(block.V, Snappy, CRC32)
                batch == Append(fout.batch, [K |-> block.K, V |-> ser.s])
            IN  IF ser.err # NoErr \/ WriterFails("serialize", fout.i)
                THEN /\ fout' = [fout EXCEPT !.failed = "serialize"]
                     /\ fstage' = "exit"
                ELSE IF ~CommitDue(fout.i, fin.n)
                THEN /\ fout' = [fout EXCEPT !.batch = batch, !.i = @ + 1]
                     /\ fstage' = "batch"
                ELSE IF WriterFails("commit", fout.i)
                THEN /\ fout' = [fout EXCEPT !.batch = batch, !.failed = "commit"]
                     /\ fstage' = "exit"
                ELSE /\ fout' = [fout EXCEPT !.batch = << >>, !.i = @ + 1,
                                             !.commits = Append(@, batch)]
                     /\ fstage' = "batch"
    /\ UNCHANGED << fin, codecVars, xferVars, engineVars >>

\* the loop over the blocks without batches: every record serialized into
\* keyvalues, or the error of the first record that fails
SerializeBlocks(blocks, n) ==
    LET ser(i) == SerializeData(blocks[i].V, Snappy, CRC32)
        bad == {i \in 1..n : ser(i).err # NoErr \/ WriterFails("serialize", i - 1)}
    IN  IF bad # {} THEN [kvs |-> << >>, err |-> "serialize"]
        ELSE [kvs |-> [i \in 1..n |-> [K |-> blocks[i].K, V |-> ser(i).s]],
              err |-> NoErr]

\* without batches: every record serialized, then one PutRange
WriterRange ==
    /\ fstage = "range"
    /\ LET r == SerializeBlocks(WriterBlocks(fin.n), fin.n)
       IN  fout' = IF r.err # NoErr
                   THEN [fout EXCEPT !.failed = "serialize"]
                   ELSE IF WriterFails("putrange", 0)
                   THEN [fout EXCEPT !.failed = "putrange"]
                   ELSE [fout EXCEPT !.ranges = Append(@, r.kvs)]
    /\ fstage' = "exit"
    /\ UNCHANGED << fin, codecVars, xferVars, engineVars >>

\* a goroutine that gives the token back and calls wg.Done() only when
\* nothing failed
WriterExitOnSuccess ==
    /\ fstage = "exit"
    /\ fout' = IF fout.failed = "none"
               THEN [fout EXCEPT !.tokens = @ + 1, !.returned = @ + 1,
                                 !.wg = @ - 1, !.dones = @ + 1]
               ELSE fout
    /\ fstage' = "done"
    /\ UNCHANGED << fin, codecVars, xferVars, engineVars >>

\* the deferred function of the goroutine: the token is given back, then
\* wg.Done()
WriterExit ==
    /\ fstage = "exit"
    /\ fout' = [fout EXCEPT !.tokens = @ + 1, !.returned = @ + 1,
                            !.wg = @ - 1, !.dones = @ + 1]
    /\ fstage' = "done"
    /\ UNCHANGED << fin, codecVars, xferVars, engineVars >>

NextWriter == WriterSubmit \/ WriterBatchStep \/ WriterRange \/ WriterExit

SpecWriter == InitWriter /\ [][NextWriter]_vars

\* C22: every submit of AsyncWriteData that took a handler token gives it
\* back exactly once and calls Done on the caller's wait group exactly once,
\* which brings the count back to zero, whether the goroutine ends after its
\* last write or after a failed serialization, batch commit or PutRange:
\* while the goroutine runs one token and one count are outstanding, and
\* once it has ended none is.
C22_TokenAndWaitGroupReleased ==
    /\ fout.taken = fout.submits
    /\ fstage \in {"batch", "range", "exit"} =>
          /\ fout.returned = fout.taken - 1
          /\ fout.dones = fout.taken - 1
          /\ fout.wg = 1
          /\ fout.tokens = NumTokens - 1
    /\ fstage \in {"idle", "done"} =>
          /\ fout.returned = fout.taken
          /\ fout.dones = fout.taken
          /\ fout.wg = 0
          /\ fout.tokens = NumTokens

\* a goroutine has ended after a failed call
C22_Witness ==
    /\ fstage = "done"
    /\ fout.failed # "none"
    /\ fout.returned = 1
    /\ fout.wg = 0

\* C23: under every interleaving of concurrent VersionMutex calls, the
\* calls for one (dataset, data, version) return the same mutex, calls for
\* different versions return different mutexes, and at most one caller at a
\* time is between the look-up in the shared map and its insert.
C23_OneMutexPerVersion ==
    /\ \A p \in Procs, q \in Procs :
          (p # q /\ procs[p].vmutex # 0 /\ procs[q].vmutex # 0) =>
             (procs[p].vid = procs[q].vid <=> procs[p].vmutex = procs[q].vmutex)
    /\ Cardinality({p \in Procs : procs[p].pc = "vmInsert"}) <= 1

\* C24: no chunk handler dispatched by a PutImage call is still running
\* once that call has released the version mutex, whether the call returned
\* nil or returned an error in the middle of a span: every put handler
\* belongs to a call that holds the mutex of its version.
C24_NoHandlerAfterUnlock ==
    \A h \in handlers :
        h.op = PutOp =>
            /\ procs[h.proc].op = "PutImage"
            /\ procs[h.proc].pc \in {"span", "dispatch", "wait"}
            /\ mutexes[procs[h.proc].vmutex] = h.proc

\* C25: in every block that LoadXY hands to AsyncWriteData, whatever the
\* layer, a byte that no image of the list covers equals the byte stored
\* for that block before the call, zero if the block was not stored: the
\* buffers of every layer start zeroed and filled with the stored blocks.
C25_LayerBuffersFreshAndLoaded ==
    (/\ load.pc = "done"
     /\ load.err = NoErr
     /\ procs[load.proc].op = "LoadXY") =>
        \A i \in 1..Len(load.handed) :
           \A j \in 1..Len(load.handed[i]) :
              LET b == load.handed[i][j]
                  n == Prod(BlockSize) * BytesPerVoxel
                  old == IF b.K \in DOMAIN load.before
                         THEN DeserializeData(load.before[b.K], TRUE).data
                         ELSE Zeros(n)
                  covered == UNION {Covered(load.images[f], b.K.index, BlockSize) :
                                      f \in 1..Len(load.images)}
              IN  b.K # NoKey =>
                     \A pos \in (1..n) \ covered : b.V[pos] = old[pos]

\* C26: LoadXY buffers two block layers, the slot being filled and the
\* slot being written.  While the write of a slot is in flight the slot
\* holds what was handed to AsyncWriteData and is not the slot the image
\* transfers fill, and at most one write is in flight.
C26_SlotCommittedBeforeReuse ==
    load.pc \notin {"off"} =>
        /\ Len(load.blocks) = 2
        /\ load.inflight <= 1
        /\ load.writer # NoWriter =>
              /\ load.inflight = 1
              /\ load.wslot # load.curBlocks
              /\ load.blocks[load.wslot + 1] = load.writer

\* the next layer has been transferred into the other slot while the write
\* of the layer before it is still in flight
C26_Witness ==
    /\ load.pc = "wait"
    /\ load.slices = {}
    /\ load.writer # NoWriter
    /\ load.blocks[load.curBlocks + 1] # load.writer
    /\ Len(load.handed) >= 2

(***************************************************************************)
(* SpecPool: a LoadXY of three images has been called by one caller while  *)
(* a second caller puts a slice of four blocks, so that chunk handlers and *)
(* the writer of a layer draw on the handler tokens at the same time.      *)
(***************************************************************************)
PoolGeometries == {NewOrthogSlice(XY, << 1, 1, 0 >>, << 2, 2 >>)}

\* the state LoadXY(1) leaves for uuid 101, offset (0,0,1) and three images
\* of 2x2 voxels
InitPool ==
    /\ dag = [u \in UUIDs |->
                IF u = UUIDOf(1)
                THEN [exists |-> TRUE, locked |-> FALSE, vid |-> 1, parent |-> 0]
                ELSE NoNode]
    /\ saved = [dag |-> dag, extents |-> NilExtents]
    /\ extents = NilExtents
    /\ store = << >>
    /\ versionMutexes = [id \in 0..MaxNodes |-> 0]
    /\ mutexes = << >>
    /\ tokens = NumTokens
    /\ handlers = {}
    /\ procs = [p \in Procs |->
                  IF p = 1
                  THEN [IdleProc EXCEPT !.pc = "vmLookup", !.op = "LoadXY",
                                        !.uuid = UUIDOf(1), !.vid = 1,
                                        !.before = << >>,
                                        !.extBefore = NilExtents]
                  ELSE IdleProc]
    /\ budget = [p \in Procs |-> IF p = 2 THEN 1 ELSE 0]
    /\ menu = PoolGeometries
    /\ lastPut = NoPut
    /\ svc = NoCall
    /\ fatal = FALSE
    /\ load = [pc |-> "lock", proc |-> 1, uuid |-> UUIDOf(1), vid |-> 1,
               err |-> NoErr, offset |-> << 0, 0, 1 >>, fileNum |-> 1, n |-> 3,
               size |-> << 2, 2 >>, bad |-> 0, images |-> << >>,
               blocks |-> << << >>, << >> >>, curBlocks |-> 0, numBlocks |-> 0,
               slices |-> {}, writer |-> NoWriter, extentChanged |-> FALSE,
               before |-> << >>, handed |-> << >>, committed |-> << >>,
               wslot |-> 0, inflight |-> 0]
    /\ faults = 0
    /\ CodecOff
    /\ XferOff
    /\ PureOff

NextPool ==
    \/ Next
    \/ \E p \in Procs : LoadXYLock(p)
    \/ LoadFile
    \/ \E g \in load.slices : LoadSlice(g)
    \/ LoadAsyncWrite
    \/ LoadWrite
    \/ \E p \in Procs : LoadReturn(p)

SpecPool == InitPool /\ [][NextPool]_vars

\* the goroutines that hold a handler token: the chunk handlers and the
\* writer of a layer
RunningHandlers ==
    Cardinality(handlers) + (IF load.pc = "off" THEN 0 ELSE load.inflight)

\* C27: the chunk handlers and asynchronous writers that run at one time
\* are never more than the handler tokens: a token is missing from the pool
\* for each of them, and the pool never holds more than its capacity.
C27_HandlersWithinTokenPool ==
    /\ tokens \in 0..NumTokens
    /\ RunningHandlers <= NumTokens
    /\ tokens + RunningHandlers = NumTokens

\* the pool is empty, held by a chunk handler and by the writer of a layer,
\* and a PutImage waits for a token
C27_Witness ==
    /\ tokens = 0
    /\ handlers # {}
    /\ load.pc # "off"
    /\ load.inflight = 1
    /\ \E p \in Procs : procs[p].pc = "dispatch"

\* C28: in every span of a PutImage call the wait group is raised by the
\* number of block coordinates of the span, and the coordinates begX..endX
\* are dispatched one by one in ascending order, each once: the chunk of
\* coordinate x carries the stored value of the block when the backend
\* holds one and only its key otherwise, and the handler of a key-only
\* chunk writes a block that is zero wherever the view does not cover it.
C28_SpanDispatchedOnce ==
    [][\A p \in Procs :
          LET pr == procs[p]
              sp == Head(pr.spans)
              k == DataKey(pr.vid, << pr.x, sp.beg[2], sp.beg[3] >>)
              n == Prod(BlockSize) * BytesPerVoxel
          IN  /\ (pr.op = "PutImage" /\ pr.pc = "span" /\ procs'[p].pc = "dispatch") =>
                    /\ procs'[p].x = sp.beg[1]
                    /\ procs'[p].wg - pr.wg = sp.end[1] - sp.beg[1] + 1
              /\ (/\ pr.op = "PutImage" /\ pr.pc = "dispatch"
                  /\ Cardinality(handlers') > Cardinality(handlers)) =>
                    /\ pr.x \in sp.beg[1]..sp.end[1]
                    /\ handlers' \ handlers =
                          {[proc |-> p, op |-> PutOp, k |-> k,
                            v |-> IF k \in DOMAIN store THEN store[k]
                                  ELSE NilValue]}
                    /\ procs'[p].x = pr.x + 1
                    /\ procs'[p].wg = pr.wg
                    /\ (procs'[p].pc = "dispatch") <=> (pr.x < sp.end[1])
                    /\ (procs'[p].pc = "span") <=> (pr.x = sp.end[1])
              /\ \A h \in handlers \ handlers' :
                    (h.proc = p /\ h.op = PutOp /\ h.v = NilValue /\ ~fatal') =>
                       /\ h.k \in DOMAIN store'
                       /\ \A j \in (1..n) \ Covered(pr.orig, h.k.index, BlockSize) :
                             DeserializeData(store'[h.k], TRUE).data[j] = 0
      ]_vars

\* two handlers of one span are running, one with the stored value of its
\* block and one with the key only
C28_Witness ==
    \E h1 \in handlers, h2 \in handlers :
        /\ h1.proc = h2.proc
        /\ h1.op = PutOp /\ h2.op = PutOp
        /\ h1.k.index[2] = h2.k.index[2] /\ h1.k.index[3] = h2.k.index[3]
        /\ h1.v # NilValue /\ h1.k \in DOMAIN store /\ h1.v = store[h1.k]
        /\ h2.v = NilValue /\ h2.k \notin DOMAIN store

\* the record AsyncWriteData is to write for the i-th submitted block
WriterRecord(i) ==
    [K |-> WriterBlocks(fin.n)[i].K,
     V |-> SerializeData(WriterBlocks(fin.n)[i].V, Snappy, CRC32).s]

\* C29: with a batching backend the goroutine of AsyncWriteData puts every
\* submitted block into exactly one batch, in submission order, commits a
\* batch after every 500th record and after the last one, and never a batch
\* of more than 500 records; every record is the snappy+crc32 serialization
\* of its block.  With a backend without batches it issues one PutRange
\* holding all the blocks.
C29_BatchesOfWriteSize ==
    /\ fstage \in {"batch", "range", "exit", "done"} =>
          \A c \in 1..Len(fout.commits) :
              Len(fout.commits[c]) \in 1..KVWriteSize
    /\ (fstage \in {"exit", "done"} /\ fout.failed = "none") =>
          IF fin.batcher
          THEN /\ fout.ranges = << >>
               /\ fout.batch = << >>
               /\ fout.closed
               /\ Len(fout.commits) = (fin.n + KVWriteSize - 1) \div KVWriteSize
               /\ \A c \in 1..(Len(fout.commits) - 1) :
                     Len(fout.commits[c]) = KVWriteSize
               /\ \A i \in 1..fin.n :
                     LET c == ((i - 1) \div KVWriteSize) + 1
                         j == ((i - 1) % KVWriteSize) + 1
                     IN  /\ j <= Len(fout.commits[c])
                         /\ fout.commits[c][j] = WriterRecord(i)
                         /\ fout.commits[c][j].V[1] =
                               EncodeSerializationFormat(Snappy, CRC32)
                         /\ DeserializeData(fout.commits[c][j].V, TRUE).data =
                               WriterBlocks(fin.n)[i].V
               /\ fin.n > 0 =>
                     Len(fout.commits[Len(fout.commits)]) =
                        fin.n - KVWriteSize * (Len(fout.commits) - 1)
          ELSE /\ fout.commits = << >>
               /\ Len(fout.ranges) = 1
               /\ fout.ranges[1] = [i \in 1..fin.n |-> WriterRecord(i)]

\* the goroutine has ended after three commits: two batches of 500 records
\* and the last record
C29_Witness ==
    /\ fstage = "done"
    /\ fin.batcher
    /\ fout.failed = "none"
    /\ Len(fout.commits) = 3
    /\ Len(fout.commits[3]) = 1

(***************************************************************************)
(* SpecService: the structural operations of the datastore service on a    *)
(* list of datasets, with the copy of every dataset the backend holds.     *)
(* The operations of Datasets and Dataset and the backend may fail.        *)
(***************************************************************************)
DataNames == {"grayscale"}

\* the root node of the dataset that holds node u
RECURSIVE RootOf(_, _)
RootOf(d, u) == IF d[u].parent = 0 THEN u ELSE RootOf(d, d[u].parent)

\* what Dataset.Put writes for the dataset with root r: its nodes and the
\* names of its data
DatasetRecord(s, r) ==
    [nodes |-> [u \in {w \in Nodes(s.dag) : RootOf(s.dag, w) = r} |-> s.dag[u]],
     data |-> s.data[r]]

NoServiceCall == [call |-> "none", root |-> 0, err |-> NoErr, put |-> FALSE,
                  db |-> << >>]

\* Init puts the empty list of datasets; Open loads it.  A Service whose
\* datasets are nil answers every operation with an error.
InitService ==
    /\ fstage = "service"
    /\ fin = << >>
    /\ \E open \in BOOLEAN :
          fout = [datasets |-> open,
                  dag |-> [u \in UUIDs |-> NoNode],
                  data |-> [u \in UUIDs |-> {}],
                  db |-> [list |-> {}, sets |-> << >>],
                  last |-> NoServiceCall]
    /\ CodecOff
    /\ XferOff
    /\ EngineOff

\* the outcome of an operation: the state, the call record
Returned(s, call, root, err, put) ==
    [s EXCEPT !.last = [call |-> call, root |-> root, err |-> err, put |-> put,
                        db |-> fout.db]]

\* Dataset.Put of the dataset with root r
DatasetPut(s, r) ==
    [s EXCEPT !.db.sets = [k \in DOMAIN @ \cup {r} |->
                              IF k = r THEN DatasetRecord(s, r) ELSE @[k]]]

\* Service.NewDataset
ServiceNewDataset ==
    /\ fstage = "service"
    /\ \E newFails \in BOOLEAN, listPutFails \in BOOLEAN, putFails \in BOOLEAN :
          LET u == UUIDOf(Cardinality(Nodes(fout.dag)) + 1)
              made == [fout EXCEPT !.dag[u] = [exists |-> TRUE, locked |-> FALSE,
                                               vid |-> 1, parent |-> 0]]
              listed == [made EXCEPT !.db.list = @ \cup {u}]
          IN  /\ Cardinality(Nodes(fout.dag)) < MaxNodes
              /\ fout' =
                  IF ~fout.datasets
                  THEN Returned(fout, "NewDataset", 0, "no datasets available", FALSE)
                  ELSE IF newFails
                  THEN Returned(fout, "NewDataset", 0, "newDataset", FALSE)
                  ELSE IF listPutFails
                  THEN Returned(made, "NewDataset", 0, "put failed", FALSE)
                  ELSE IF putFails
                  THEN Returned(listed, "NewDataset", u, "put failed", FALSE)
                  ELSE Returned(DatasetPut(listed, u), "NewDataset", u, NoErr, TRUE)
    /\ UNCHANGED << fstage, fin, codecVars, xferVars, engineVars >>

\* Service.NewVersion
ServiceNewChild ==
    /\ fstage = "service"
    /\ \E parent \in UUIDs, putFails \in BOOLEAN :
          LET r == NewVersion(fout.dag, parent)
              made == [fout EXCEPT !.dag = r.dag]
          IN  /\ r.err # NoErr \/ Cardinality(Nodes(fout.dag)) < MaxNodes
              /\ fout' =
                  IF ~fout.datasets
                  THEN Returned(fout, "NewVersion", 0, "no datasets available", FALSE)
                  ELSE IF ~r.put
                  THEN Returned(made, "NewVersion", 0, r.err, FALSE)
                  ELSE IF putFails
                  THEN Returned(made, "NewVersion", RootOf(r.dag, r.u),
                                "put failed", FALSE)
                  ELSE Returned(DatasetPut(made, RootOf(r.dag, r.u)), "NewVersion",
                                RootOf(r.dag, r.u), r.err, TRUE)
    /\ UNCHANGED << fstage, fin, codecVars, xferVars, engineVars >>

\* Service.NewData
ServiceNewData ==
    /\ fstage = "service"
    /\ \E u \in UUIDs, name \in DataNames, newFails \in BOOLEAN,
          putFails \in BOOLEAN :
          LET found == DatasetFromUUID(fout.dag, u)
              r == RootOf(fout.dag, u)
              made == [fout EXCEPT !.data[r] = @ \cup {name}]
          IN  fout' =
                  IF ~fout.datasets
                  THEN Returned(fout, "NewData", 0, "no datasets available", FALSE)
                  ELSE IF found # NoErr
                  THEN Returned(fout, "NewData", 0, found, FALSE)
                  ELSE IF newFails
                  THEN Returned(fout, "NewData", r, "newData", FALSE)
                  ELSE IF putFails
                  THEN Returned(made, "NewData", r, "put failed", FALSE)
                  ELSE Returned(DatasetPut(made, r), "NewData", r, NoErr, TRUE)
    /\ UNCHANGED << fstage, fin, codecVars, xferVars, engineVars >>

\* Service.Lock calling Dataset.Put only for a node that was open
ServiceLockNodePutIfOpen ==
    /\ fstage = "service"
    /\ \E u \in UUIDs, refused \in BOOLEAN, putFails \in BOOLEAN :
          LET r == Lock(fout.dag, u)
              root == RootOf(fout.dag, u)
              made == [fout EXCEPT !.dag = r.dag]
          IN  fout' =
                  IF ~fout.datasets
                  THEN Returned(fout, "Lock", 0, "no datasets available", FALSE)
                  ELSE IF ~r.put
                  THEN Returned(fout, "Lock", 0, r.err, FALSE)
                  ELSE IF refused
                  THEN Returned(fout, "Lock", root, "lock refused", FALSE)
                  ELSE IF putFails
                  THEN Returned(made, "Lock", root, "put failed", FALSE)
                  ELSE IF fout.dag[u].locked
                  THEN Returned(made, "Lock", root, NoErr, FALSE)
                  ELSE Returned(DatasetPut(made, root), "Lock", root, NoErr, TRUE)
    /\ UNCHANGED << fstage, fin, codecVars, xferVars, engineVars >>

\* Service.Lock
ServiceLockNode ==
    /\ fstage = "service"
    /\ \E u \in UUIDs, refused \in BOOLEAN, putFails \in BOOLEAN :
          LET r == Lock(fout.dag, u)
              root == RootOf(fout.dag, u)
              made == [fout EXCEPT !.dag = r.dag]
          IN  fout' =
                  IF ~fout.datasets
                  THEN Returned(fout, "Lock", 0, "no datasets available", FALSE)
                  ELSE IF ~r.put
                  THEN Returned(fout, "Lock", 0, r.err, FALSE)
                  ELSE IF refused
                  THEN Returned(fout, "Lock", root, "lock refused", FALSE)
                  ELSE IF putFails
                  THEN Returned(made, "Lock", root, "put failed", FALSE)
                  ELSE Returned(DatasetPut(made, root), "Lock", root, NoErr, TRUE)
    /\ UNCHANGED << fstage, fin, codecVars, xferVars, engineVars >>

NextService ==
    \/ ServiceNewDataset
    \/ ServiceNewChild
    \/ ServiceNewData
    \/ ServiceLockNode

SpecService == InitService /\ [][NextService]_vars

\* the errors returned before anything was changed
RefusedErrors ==
    {"no datasets available", "UnknownUUID", "VersionLocked", "lock refused",
     "newData", "newDataset"}

\* C30: when NewDataset, NewVersion, NewData or Lock has returned without
\* error, the backend holds the affected dataset as it is in memory (and a
\* new dataset is in the stored list); when the operation was refused before
\* it changed anything, the backend holds what it held before the call.
C30_StructuralChangePersisted ==
    LET l == fout.last
    IN  /\ (l.call # "none" /\ l.err = NoErr) =>
              /\ l.put
              /\ l.root \in DOMAIN fout.db.sets
              /\ fout.db.sets[l.root] = DatasetRecord(fout, l.root)
              /\ l.call = "NewDataset" => l.root \in fout.db.list
        /\ l.err \in RefusedErrors =>
              /\ ~l.put
              /\ fout.db = l.db

\* a branch of a locked root has returned and was persisted, after an
\* operation that was persisted before it
C30_Witness ==
    /\ fout.last.call = "NewVersion"
    /\ fout.last.err = NoErr
    /\ fout.last.db.sets # << >>
    /\ fout.db # fout.last.db
    /\ fout.data[fout.last.root] # {}
(***************************************************************************)
(* Loads and writes with a metadata store that can fail: the                *)
(* specification of the loader with a budget of failures, one of which a   *)
(* SaveDataset of a returning write can take.                              *)
(***************************************************************************)
InitLoadFault ==
    /\ InitEngine([p \in Procs |-> IF p = 1 THEN MaxOps ELSE 0], LoadGeometries)
    /\ faults = MaxFaults
    /\ CodecOff
    /\ XferOff
    /\ PureOff

NextLoadFault ==
    \/ NextLoad
    \/ \E p \in Procs : PutImageRangeFails(p)
    \/ CorruptBlock

SpecLoadFault == InitLoadFault /\ [][NextLoadFault]_vars

\* C31: when SaveDataset fails after a PutImage or a LoadXY changed the
\* extents, the call still returns its own result (nil for a PutImage that
\* reached its end, the loader's result for LoadXY) and the extents in
\* memory keep the updated bounds, which cover the view of the PutImage.
C31_SaveFailureOnlyLogged ==
    \A p \in Procs :
        procs[p].pc = "done" /\ procs[p].saveFailed =>
            /\ procs[p].err = IF procs[p].op = "LoadXY" THEN load.err ELSE NoErr
            /\ extents # procs[p].extBefore
            /\ extents # NilExtents
            /\ procs[p].op = "PutImage" =>
                  \A d \in 1..3 :
                     /\ extents.MinPoint[d] <= StartPoint(procs[p].orig)[d]
                     /\ extents.MaxPoint[d] >= EndPoint(procs[p].orig)[d]

C31_Witness ==
    \E p \in Procs :
        /\ procs[p].pc = "done"
        /\ procs[p].op = "LoadXY"
        /\ procs[p].saveFailed
        /\ procs[p].err = NoErr
        /\ saved.extents # extents
        /\ store # << >>

\* C32: PutImage and LoadXY release the version mutex once on every exit
\* path: a call holds the mutex it locked from the lock to its return, a
\* call that has returned (with nil, after a failed range read, a failed
\* iterator, a bad image file or a stored block that cannot be read) holds
\* no mutex, and after a returned write the mutex of its version is free
\* for the next writer.
C32_VersionMutexReleased ==
    \A p \in Procs :
        /\ procs[p].pc \in {"idle", "done"} =>
              \A i \in 1..Len(mutexes) : mutexes[i] # p
        /\ (\/ procs[p].op = "PutImage" /\ procs[p].pc \in {"span", "dispatch", "wait"}
            \/ procs[p].op = "LoadXY" /\ procs[p].pc = "load") =>
              mutexes[procs[p].vmutex] = p
        /\ (/\ procs[p].op \in {"PutImage", "LoadXY"}
            /\ procs[p].pc = "done"
            /\ versionMutexes[procs[p].vid] # 0) =>
              mutexes[versionMutexes[procs[p].vid]] = 0

C32_Witness ==
    \E p \in Procs :
        /\ procs[p].op = "PutImage"
        /\ procs[p].pc = "done"
        /\ procs[p].lerr = NoErr
        /\ procs[p].err # NoErr
        /\ procs[p].vmutex # 0
        /\ mutexes[procs[p].vmutex] = 0
        /\ load.pc = "done"
        /\ load.err # NoErr

\* C33: a GetVoxels call whose UUID LocalIDFromUUID cannot resolve issues
\* no range read on the backend, dispatches no chunk handler, leaves the
\* view buffer as it was and returns the error.
C33_UnresolvedGetTouchesNothing ==
    \A p \in Procs :
        procs[p].op = "GetVoxels" /\ procs[p].lerr # NoErr =>
            /\ procs[p].reads = 0
            /\ \A h \in handlers : h.proc # p
            /\ procs[p].view = procs[p].orig
            /\ procs[p].pc = "done" => procs[p].err = procs[p].lerr

\* C34: a PutImage or GetVoxels call that returns nil has gone over every
\* block that intersects its view: the index iterator was made, and after
\* a PutImage whose block writes all went through every such block is in
\* the store.  A call whose index iterator could not be made returns an
\* error.
C34_SuccessCoversEveryBlock ==
    \A p \in Procs :
        (/\ procs[p].op \in {"PutImage", "GetVoxels"}
         /\ procs[p].pc = "done"
         /\ procs[p].err = NoErr
         /\ ~procs[p].putFailed
         /\ ~procs[p].sawBad) =>
            /\ ~procs[p].iterFailed
            /\ procs[p].op = "PutImage" =>
                  \A i \in 1..Len(BlockIndices(procs[p].orig, BlockSize)) :
                     DataKey(procs[p].vid, BlockIndices(procs[p].orig, BlockSize)[i])
                        \in DOMAIN store

\* a caller that has started and not returned
Active(p) == procs[p].pc \notin {"idle", "done"}

\* the three waits of a caller with nothing left that could end them: a
\* version mutex held by a call that has returned, a handler token with
\* the pool empty and no holder running, a wait group with no handler left
WaitsOnDeadMutex(p) ==
    /\ procs[p].pc = "lock"
    /\ mutexes[procs[p].vmutex] # 0
    /\ ~Active(mutexes[procs[p].vmutex])
WaitsOnDeadToken(p) ==
    /\ procs[p].pc \in {"dispatch", "gdispatch"}
    /\ tokens = 0
    /\ handlers = {}
    /\ load.writer = NoWriter
WaitsOnDeadWaitGroup(p) ==
    /\ procs[p].pc \in {"wait", "gwait"}
    /\ procs[p].wg > 0
    /\ \A h \in handlers : h.proc # p

C36_NoTransferAfterHandOver ==
    /\ (load.slices # {} /\ load.writer # NoWriter) => load.wslot # load.curBlocks
    /\ load.pc = "done" => load.slices = {}

(***************************************************************************)
(* The block arrays of one layer of LoadXY: GetNumBlocks sizes the array   *)
(* for an XY slice, and the span loop of loadOldBlocks and writeXYImage    *)
(* walks it with blockNum, one element per block of each span.             *)
(***************************************************************************)
MaxSliceSize == 3
SliceOffsets ==
    {<< x, y, z >> : x \in -MaxExtCoord..MaxExtCoord,
                     y \in -MaxExtCoord..MaxExtCoord, z \in 0..1}
SliceSizes == {<< w, h >> : w \in 1..MaxSliceSize, h \in 1..MaxSliceSize}
SliceBlockSizes == {<< 2, 2, 2 >>, << 3, 3, 3 >>}
SliceInputs ==
    [e : {NewOrthogSlice(XY, o, sz) : o \in SliceOffsets, sz \in SliceSizes},
     blockSize : SliceBlockSizes]

InitBlocks ==
    /\ fstage = "alloc"
    /\ fin \in SliceInputs
    /\ fout = [numBlocks |-> 0, spans |-> << >>, blockNum |-> 0, panic |-> FALSE]
    /\ CodecOff
    /\ XferOff
    /\ EngineOff

\* numBlocks = dvid.GetNumBlocks(e, blockSize); make(Blocks, numBlocks,
\* numBlocks); then the index iterator of the span loop
AllocBlocks ==
    /\ fstage = "alloc"
    /\ fstage' = "spans"
    /\ fout' = [fout EXCEPT
          !.numBlocks = GetNumBlocks(fin.e, fin.blockSize),
          !.spans = IndexIterator(fin.e, fin.blockSize)]
    /\ UNCHANGED << fin, codecVars, xferVars, engineVars >>

\* one span of the loop: blocks[blockNum] for each x of the span, with the
\* index checked against the length of the array as the runtime does
WalkSpan ==
    /\ fstage = "spans"
    /\ ~fout.panic
    /\ IF fout.spans = << >>
       THEN /\ fstage' = "done"
            /\ UNCHANGED fout
       ELSE LET sp == Head(fout.spans)
                n == sp.end[1] - sp.beg[1] + 1
            IN  /\ fout' = [fout EXCEPT
                      !.panic = fout.blockNum + n > fout.numBlocks,
                      !.blockNum = IF fout.blockNum + n > fout.numBlocks
                                   THEN IF fout.numBlocks > fout.blockNum
                                        THEN fout.numBlocks ELSE fout.blockNum
                                   ELSE fout.blockNum + n,
                      !.spans = Tail(@)]
                /\ UNCHANGED fstage
    /\ UNCHANGED << fin, codecVars, xferVars, engineVars >>

NextBlocks == AllocBlocks \/ WalkSpan

SpecBlocks == InitBlocks /\ [][NextBlocks]_vars

\* C37: for every XY slice and block size, at every start offset,
\* GetNumBlocks is the number of blocks the span loop goes over: the loop
\* never indexes the block array out of range and ends with blockNum equal
\* to the length of the array.
C37_NumBlocksMatchesSpans ==
    /\ ~fout.panic
    /\ fstage = "done" => fout.blockNum = fout.numBlocks

\* C38: for every supported view shape and every block that intersects the
\* view, no copy of transferBlock goes outside the block buffer or the view
\* buffer, and the bytes moved are those of the voxels of the view/block
\* intersection and no others: one buffer is left as it was and the other
\* differs from its old content only at the positions of the intersection,
\* where it holds the bytes of the same voxels of the first.
C38_TransferStaysInIntersection ==
    xstage = "done" /\ SupportedTransfer(xin.v, xin.bs) =>
        /\ xout.r.err = NoErr
        /\ ~xout.r.panic
        /\ Len(xout.r.d) = Len(xin.v.data)
        /\ Len(xout.r.b) = Len(xin.blockV)
        /\ LET shared == Shared(xin.v, xin.idx, xin.bs)
               pos == [i \in shared |-> BlockPos(xin.v, i, xin.idx, xin.bs)]
               covered == {pos[i] : i \in shared}
           IN  /\ shared # {}
               /\ \A i \in shared, j \in shared : pos[i] = pos[j] => i = j
               /\ \/ /\ xout.r.b = xin.blockV
                     /\ \A i \in 1..Len(xin.v.data) :
                           xout.r.d[i] = IF i \in shared THEN xin.blockV[pos[i]]
                                         ELSE xin.v.data[i]
                  \/ /\ xout.r.d = xin.v.data
                     /\ \A i \in shared : xout.r.b[pos[i]] = xin.v.data[i]
                     /\ \A j \in (1..Len(xin.blockV)) \ covered :
                           xout.r.b[j] = xin.blockV[j]

\* a view that meets a block other than the first in part of the block and
\* part of the view, two bytes per voxel
C38_Witness ==
    /\ xstage = "done"
    /\ SupportedTransfer(xin.v, xin.bs)
    /\ Equals(xin.v.shape, YZ)
    /\ xin.v.bpv = 2
    /\ xin.idx # << 0, 0, 0 >>
    /\ xout.op = PutOp
    /\ Cardinality(Covered(xin.v, xin.idx, xin.bs)) < Len(xin.blockV)
    /\ Cardinality(Shared(xin.v, xin.idx, xin.bs)) < Len(xin.v.data)
    /\ xout.r.b # xin.blockV

(***************************************************************************)
(* DataShape: Duplicate, and the fixed-length byte form of Bytes and        *)
(* BytesToDataShape.                                                       *)
(***************************************************************************)
DataShapeBytes == 7
MaxShapeLen == 5
MaxAxis == 2

\* copy(dst, src) of Go: the first min(len(dst), len(src)) elements
GoCopy(dst, src) ==
    [i \in 1..Len(dst) |-> IF i <= Len(src) THEN src[i] ELSE dst[i]]

\* DataShape.Duplicate: dup.shape is the nil slice of the new DataShape
\* when copy is called
Duplicate(s) == [dims |-> s.dims, shape |-> GoCopy(<< >>, s.shape)]

\* DataShape.Bytes: [b, panic]; b[i+2] past the seventh byte is an index out
\* of range
Bytes(s) ==
    [b |-> [i \in 1..DataShapeBytes |->
               IF i = 1 THEN s.dims
               ELSE IF i = 2 THEN Len(s.shape) % 256
               ELSE IF i - 2 <= Len(s.shape) THEN s.shape[i - 2] ELSE 0],
     panic |-> Len(s.shape) + 2 > DataShapeBytes]

\* BytesToDataShape: [s, err, panic]
BytesToDataShape(b) ==
    IF Len(b) # DataShapeBytes
    THEN [s |-> [dims |-> 0, shape |-> << >>],
          err |-> "Cannot convert bytes to DataShape", panic |-> FALSE]
    ELSE [s |-> [dims |-> b[1],
                 shape |-> [i \in 1..b[2] |->
                              IF i + 2 <= Len(b) THEN b[i + 2] ELSE 0]],
          err |-> NoErr,
          panic |-> b[2] + 2 > Len(b)]

RECURSIVE AxisLists(_)
AxisLists(n) ==
    IF n = 0 THEN {<< >>}
    ELSE AxisLists(n - 1)
         \cup {Append(l, a) : l \in {m \in AxisLists(n - 1) : Len(m) = n - 1},
                              a \in 0..MaxAxis}
DataShapes == [dims : {MaxAxis + 1}, shape : AxisLists(MaxShapeLen)]

NoShapeResult ==
    [dup |-> Arb, bytes |-> << >>, back |-> Arb, err |-> NoErr, panic |-> FALSE]

InitShape ==
    /\ fstage = "shape"
    /\ fin \in DataShapes
    /\ fout = NoShapeResult
    /\ CodecOff
    /\ XferOff
    /\ EngineOff

ShapeDuplicate ==
    /\ fstage = "shape"
    /\ fstage' = "dup"
    /\ fout' = [fout EXCEPT !.dup = Duplicate(fin)]
    /\ UNCHANGED << fin, codecVars, xferVars, engineVars >>

ShapeBytes ==
    /\ fstage = "shape"
    /\ fstage' = IF Bytes(fin).panic THEN "panic" ELSE "bytes"
    /\ fout' = [fout EXCEPT !.bytes = Bytes(fin).b, !.panic = Bytes(fin).panic]
    /\ UNCHANGED << fin, codecVars, xferVars, engineVars >>

ShapeFromBytes ==
    /\ fstage = "bytes"
    /\ LET r == BytesToDataShape(fout.bytes)
       IN  /\ fstage' = IF r.panic THEN "panic" ELSE "back"
           /\ fout' = [fout EXCEPT !.back = r.s, !.err = r.err, !.panic = r.panic]
    /\ UNCHANGED << fin, codecVars, xferVars, engineVars >>

NextShape == ShapeDuplicate \/ ShapeBytes \/ ShapeFromBytes

SpecShape == InitShape /\ [][NextShape]_vars

\* C39: the duplicate of a DataShape is equal to it under Equals, and a
\* shape of at most five axes turned into bytes and back is equal to it
\* under Equals.
C39_DuplicateAndBytesRoundTrip ==
    /\ fstage = "dup" => Equals(fout.dup, fin) /\ Equals(fin, fout.dup)
    /\ Len(fin.shape) <= 5 => fstage # "panic"
    /\ (fstage = "back" /\ Len(fin.shape) <= 5) =>
          /\ fout.err = NoErr
          /\ Equals(fout.back, fin)

====
